---- MODULE Spec2Model ----
(***************************************************************************)
(* A model of the Pilar/OpenTCI client driver (pyobs_pilar/pilardriver.py):*)
(* the line transport (PilarClientProtocol), the command exchange          *)
(* (PilarCommand), the primitive operations of the facade (PilarDriver.get,*)
(* set, safe_set) and its composite operations.                            *)
(*                                                                         *)
(* Text received from the server is modelled character by character: a     *)
(* line is a sequence of one-character strings, and the Python string      *)
(* operations the code applies to it (find, in, slicing, split, int) are   *)
(* the operators Find, Contains, PySlice, Split and PyInt below.  Text the *)
(* driver writes is a sequence too; the name of a protocol variable is     *)
(* kept as one element of it (the driver never parses what it wrote).      *)
(***************************************************************************)
EXTENDS Integers, Sequences, FiniteSets, TLC

VARIABLES
    buffer,       \* PilarClientProtocol._buffer: received text not yet framed
    logged_in,    \* PilarClientProtocol._logged_in
    id,           \* PilarClientProtocol._id: the last id handed out
    commands,     \* PilarClientProtocol._commands: the open list (references)
    cmds,         \* the PilarCommand objects ever created, in creation order
    transport,    \* what was written to the transport, in order
    data,         \* the bytes most recently handed to data_received
    received,     \* how many times data_received was called
    failed,       \* the exception that left the last data_received, or "none"
    calls,        \* the facade calls (get/set/safe_set), one per command
    abort_event,  \* the asyncio.Event the composite operations are given
    op,           \* the running composite operation (goto/track): its frame
    errors,       \* PilarError._errors: the errors seen, name and dates
    now           \* the clock (datetime.now), in half seconds

vars == <<buffer, logged_in, id, commands, cmds, transport, data, received,
          failed, calls, abort_event, op, errors, now>>

(***************************************************************************)
(* Bounds of the model.                                                    *)
(***************************************************************************)
MaxId == 2

MaxLines == 3

MaxCalls == 1

MaxReplies == 2

(***************************************************************************)
(* Python's None.  Texts are sequences of characters, so None is a value   *)
(* that is a sequence but no text.                                         *)
(***************************************************************************)
None == <<"None">>

(***************************************************************************)
(* Python string operations on sequences of characters.  Positions are     *)
(* 0-based as in Python.                                                    *)
(***************************************************************************)
SetMin(S) == CHOOSE x \in S : \A y \in S : x <= y

SetMax(S) == CHOOSE x \in S : \A y \in S : x >= y

Clamp(i, n) == IF i < 0 THEN 0 ELSE IF i > n THEN n ELSE i

\* s[a:b]
PySlice(s, a, b) ==
    LET n  == Len(s)
        lo == Clamp(IF a < 0 THEN a + n ELSE a, n)
        hi == Clamp(IF b < 0 THEN b + n ELSE b, n)
    IN  IF lo >= hi THEN <<>> ELSE SubSeq(s, lo + 1, hi)

\* s[a:]
PyFrom(s, a) == PySlice(s, a, Len(s))

\* whether sub stands in s at position i
At(s, sub, i) ==
    /\ i + Len(sub) <= Len(s)
    /\ \A j \in 1..Len(sub) : s[i + j] = sub[j]

\* s.find(sub)
Find(s, sub) ==
    IF \E i \in 0..(Len(s) - Len(sub)) : At(s, sub, i)
    THEN SetMin({i \in 0..(Len(s) - Len(sub)) : At(s, sub, i)})
    ELSE -1

\* s.rfind(sub)
RFind(s, sub) ==
    IF \E i \in 0..(Len(s) - Len(sub)) : At(s, sub, i)
    THEN SetMax({i \in 0..(Len(s) - Len(sub)) : At(s, sub, i)})
    ELSE -1

\* sub in s
Contains(s, sub) == \E i \in 0..(Len(s) - Len(sub)) : At(s, sub, i)

IsSpace(ch) == ch \in {" ", "\t", "\r", "\n"}

\* s.split(): the maximal runs of non-whitespace characters
RECURSIVE SplitFrom(_, _, _)
SplitFrom(s, i, cur) ==
    IF i > Len(s)
    THEN IF cur = <<>> THEN <<>> ELSE <<cur>>
    ELSE IF IsSpace(s[i])
         THEN IF cur = <<>>
              THEN SplitFrom(s, i + 1, <<>>)
              ELSE <<cur>> \o SplitFrom(s, i + 1, <<>>)
         ELSE SplitFrom(s, i + 1, Append(cur, s[i]))

Split(s) == SplitFrom(s, 1, <<>>)

Digits == <<"0", "1", "2", "3", "4", "5", "6", "7", "8", "9">>

IsDigit(ch) == \E d \in 1..10 : Digits[d] = ch

DigitVal(ch) == (CHOOSE d \in 1..10 : Digits[d] = ch) - 1

RECURSIVE DigitsVal(_)
DigitsVal(t) ==
    IF t = <<>> THEN 0
    ELSE 10 * DigitsVal(SubSeq(t, 1, Len(t) - 1)) + DigitVal(t[Len(t)])

\* int(t): an optional sign and decimal digits; anything else is a ValueError
PyIntOk(t) ==
    LET body == IF t # <<>> /\ t[1] \in {"+", "-"} THEN Tail(t) ELSE t
    IN  body # <<>> /\ \A i \in 1..Len(body) : IsDigit(body[i])

PyInt(t) ==
    IF t[1] = "-" THEN 0 - DigitsVal(Tail(t))
    ELSE IF t[1] = "+" THEN DigitsVal(Tail(t))
    ELSE DigitsVal(t)

\* str(n) for an integer n >= 0
RECURSIVE PyStr(_)
PyStr(n) ==
    IF n < 10 THEN <<Digits[n + 1]>>
    ELSE PyStr(n \div 10) \o <<Digits[(n % 10) + 1]>>

(***************************************************************************)
(* The protocol's markers.                                                 *)
(***************************************************************************)
COMMAND_OK == <<"C","O","M","M","A","N","D"," ","O","K">>

COMMAND_ERROR == <<"C","O","M","M","A","N","D"," ","E","R","R","O","R">>

COMMAND_COMPLETE ==
    <<"C","O","M","M","A","N","D"," ","C","O","M","P","L","E","T","E">>

COMMAND_FAILED == <<"C","O","M","M","A","N","D"," ","F","A","I","L","E","D">>

DATA_INLINE == <<"D","A","T","A"," ","I","N","L","I","N","E">>

AUTH_PLAIN == <<"A","U","T","H"," ","P","L","A","I","N">>

AUTH_OK == <<"A","U","T","H"," ","O","K">>

AUTH_FAILED == <<"A","U","T","H"," ","F","A","I","L","E","D">>

NL == "\n"

(***************************************************************************)
(* PilarCommand.                                                           *)
(***************************************************************************)
\* PilarCommand.__init__; id 0 stands for the id not assigned yet
PilarCommand(command) ==
    [command |-> command, id |-> 0, sent |-> FALSE, acknowledged |-> FALSE,
     completed |-> FALSE, error |-> None, data |-> None, values |-> <<>>]

\* PilarCommand.__call__: the text written for the command
wire(c) == PyStr(c.id) \o <<" ">> \o c.command \o <<NL>>

\* a mapping that moves a key to the end when it is set again
DictSetLast(d, key, value) ==
    Append(SelectSeq(d, LAMBDA e : e[1] # key), <<key, value>>)

\* self.values[key] = value: a dict keeps a key's place when it is set again
DictSet(d, key, value) ==
    IF \E i \in 1..Len(d) : d[i][1] = key
    THEN [i \in 1..Len(d) |-> IF d[i][1] = key THEN <<key, value>> ELSE d[i]]
    ELSE Append(d, <<key, value>>)

DictKeys(d) == [i \in 1..Len(d) |-> d[i][1]]

\* a stripping that leaves a value with a quote inside it alone
strip_quotes_bounding_pair(value) ==
    IF /\ value[1] = "\""
       /\ value[Len(value)] = "\""
       /\ \A i \in 2..(Len(value) - 1) : value[i] # "\""
    THEN PySlice(value, 1, -1)
    ELSE value

\* the "# type?" step of parse: one layer of bounding quotes is taken off
strip_quotes(value) ==
    IF value[1] = "\"" /\ value[Len(value)] = "\""
    THEN PySlice(value, 1, -1)
    ELSE value

\* the "# acknowledge" step of parse
acknowledge(c, ln) ==
    IF Contains(ln, COMMAND_OK) \/ Contains(ln, COMMAND_ERROR)
    THEN [c EXCEPT !.acknowledged = TRUE,
                   !.error = IF Contains(ln, COMMAND_ERROR) THEN ln ELSE @]
    ELSE c

\* the "# payload" step of parse, for a line that contains DATA INLINE;
\* value[0] of an empty value is an IndexError
payload(c, ln) ==
    LET pos   == Find(ln, <<"=">>)
        key   == PySlice(ln, Find(ln, DATA_INLINE) + 12, pos)
        value == PyFrom(ln, pos + 1)
    IN  IF value = <<>>
        THEN [cmd |-> c, exc |-> "IndexError"]
        ELSE [cmd |-> [c EXCEPT !.values = DictSet(@, key, strip_quotes(value)),
                                !.data = strip_quotes(value)],
              exc |-> "none"]

\* the "# finish" step of parse, for a line without DATA INLINE
finish(c, ln) ==
    IF Contains(ln, COMMAND_COMPLETE) \/ Contains(ln, COMMAND_FAILED)
    THEN [c EXCEPT !.completed = TRUE]
    ELSE c

\* a parse whose "# finish" step is an "if" of its own
parse_own_union(c, ln) ==
    IF Contains(ln, DATA_INLINE)
    THEN LET res == payload(acknowledge(c, ln), ln)
         IN  [cmd |-> finish(res.cmd, ln), exc |-> res.exc]
    ELSE [cmd |-> finish(acknowledge(c, ln), ln), exc |-> "none"]

\* parse, once the line's id is the command's
parse_own(c, ln) ==
    IF Contains(ln, DATA_INLINE)
    THEN payload(acknowledge(c, ln), ln)
    ELSE [cmd |-> finish(acknowledge(c, ln), ln), exc |-> "none"]

\* a parse that does not compare the line's id with the command's
parse_any_id(c, ln) ==
    LET s == Split(ln)
    IN  IF s = <<>> THEN [cmd |-> c, exc |-> "IndexError"]
        ELSE IF ~PyIntOk(s[1]) THEN [cmd |-> c, exc |-> "ValueError"]
        ELSE parse_own(c, ln)

\* PilarCommand.parse: the command after the line, and the exception raised
parse(c, ln) ==
    LET s == Split(ln)
    IN  IF s = <<>> THEN [cmd |-> c, exc |-> "IndexError"]
        ELSE IF ~PyIntOk(s[1]) THEN [cmd |-> c, exc |-> "ValueError"]
        ELSE IF PyInt(s[1]) # c.id THEN [cmd |-> c, exc |-> "none"]
        ELSE parse_own(c, ln)

(***************************************************************************)
(* PilarClientProtocol.  A protocol state p is the record of its fields    *)
(* (and of the command objects its list refers to).                        *)
(***************************************************************************)
Protocol ==
    [buffer |-> buffer, logged_in |-> logged_in, id |-> id,
     commands |-> commands, cmds |-> cmds, transport |-> transport,
     failed |-> "none"]

\* a data_received that forgets to delete the finished commands
RemoveNone(list, del) == list

\* self._commands.remove(cmd) for every cmd of the list del
RemoveAll(list, del) == SelectSeq(list, LAMBDA r : \A j \in 1..Len(del) : del[j] # r)

\* "for cmd in self._commands": offer the line to the commands from place i
\* on; del is commands_to_delete.  An exception of parse leaves the loop.
RECURSIVE offer(_, _, _, _)
offer(p, ln, i, del) ==
    IF i > Len(p.commands)
    THEN [p EXCEPT !.commands = RemoveAll(@, del)]
    ELSE LET r   == p.commands[i]
             res == parse(p.cmds[r], ln)
         IN  IF res.exc # "none"
             THEN [p EXCEPT !.cmds[r] = res.cmd, !.failed = res.exc]
             ELSE offer([p EXCEPT !.cmds[r] = res.cmd], ln, i + 1,
                        IF res.cmd.completed THEN Append(del, r) ELSE del)

\* the credentials line written on a login prompt
AuthReply ==
    AUTH_PLAIN \o <<" ", "\"", "username", "\"", " ", "\"", "password", "\"", NL>>

\* a data_received that leaves the login as it is on AUTH FAILED
handle_line_failed_ignored(p, ln) ==
    IF Contains(ln, AUTH_PLAIN)
    THEN [p EXCEPT !.transport = Append(@, AuthReply)]
    ELSE IF Contains(ln, AUTH_OK) THEN [p EXCEPT !.logged_in = TRUE]
    ELSE IF Contains(ln, AUTH_FAILED) THEN p
    ELSE offer(p, ln, 1, <<>>)

\* one line of data_received
handle_line(p, ln) ==
    IF Contains(ln, AUTH_PLAIN)
    THEN [p EXCEPT !.transport = Append(@, AuthReply)]
    ELSE IF Contains(ln, AUTH_OK) THEN [p EXCEPT !.logged_in = TRUE]
    ELSE IF Contains(ln, AUTH_FAILED) THEN [p EXCEPT !.logged_in = FALSE]
    ELSE offer(p, ln, 1, <<>>)

\* the while loop of data_received
RECURSIVE frames(_)
frames(p) ==
    IF p.buffer # <<>> /\ Contains(p.buffer, <<NL>>)
    THEN LET length == Find(p.buffer, <<NL>>)
             ln     == PySlice(p.buffer, 0, length)
             q      == handle_line([p EXCEPT !.buffer = PyFrom(@, length + 1)], ln)
         IN  IF q.failed # "none" THEN q ELSE frames(q)
    ELSE p

\* a data_received that starts its buffer anew with every chunk
data_received_fresh(p, chunk) == frames([p EXCEPT !.buffer = chunk])

\* PilarClientProtocol.data_received
data_received(p, chunk) == frames([p EXCEPT !.buffer = @ \o chunk])

\* an execute that numbers a command by its place in the open list
execute_by_place(p, command) ==
    LET c == [PilarCommand(command) EXCEPT !.id = Len(p.commands) + 1, !.sent = TRUE]
    IN  [p EXCEPT !.id = Len(p.commands) + 1,
                  !.cmds = Append(@, c),
                  !.commands = Append(@, Len(p.cmds) + 1),
                  !.transport = Append(@, wire(c))]

\* PilarClientProtocol.execute: the next id, the new command at the end of
\* the open list, its text written
execute(p, command) ==
    LET c == [PilarCommand(command) EXCEPT !.id = p.id + 1, !.sent = TRUE]
    IN  [p EXCEPT !.id = @ + 1,
                  !.cmds = Append(@, c),
                  !.commands = Append(@, Len(p.cmds) + 1),
                  !.transport = Append(@, wire(c))]

\* the protocol's fields after an operation
Becomes(p) ==
    /\ buffer' = p.buffer
    /\ logged_in' = p.logged_in
    /\ id' = p.id
    /\ commands' = p.commands
    /\ cmds' = p.cmds
    /\ transport' = p.transport
    /\ failed' = p.failed

(***************************************************************************)
(* PilarCommand.wait and the primitive operations of PilarDriver.  A call  *)
(* of get, set or safe_set is a coroutine; calls[r] is the frame of the    *)
(* call that executed command r:                                           *)
(*   fn      "get", "set", "safe_set", or "cmd": set(wait=False), whose    *)
(*           caller holds the command and may await cmd.wait() later       *)
(*   pc      "waiting"  suspended in cmd.wait()                            *)
(*           "handle"   set(wait=False) returned the command to its caller *)
(*           "returned" / "raised"                                         *)
(*   elapsed whether the timeout of its wait_for has run out               *)
(*   result  the value returned, or the text of the exception raised       *)
(*   exc     the exception raised, or "none"                               *)
(***************************************************************************)
\* PilarCommand.wait: asyncio.wait_for(self.completed.wait(), timeout) on a
\* command c, when the timeout has (elapsed) or has not run out and the
\* abort event is (aborted) or is not set: "done", "TimeoutError", or
\* "pending" while it stays suspended
\* a wait that gives up when the abort event is set
wait_aborting(c, elapsed, aborted) ==
    IF c.completed THEN "done"
    ELSE IF elapsed \/ aborted THEN "TimeoutError"
    ELSE "pending"

\* a wait that looks at its timeout first
wait_timeout_first(c, elapsed, aborted) ==
    IF elapsed THEN "TimeoutError"
    ELSE IF c.completed THEN "done"
    ELSE "pending"

wait(c, elapsed, aborted) ==
    IF c.completed THEN "done"
    ELSE IF elapsed THEN "TimeoutError"
    ELSE "pending"

GetText(key) == <<"G", "E", "T", " ", key>>

\* f'SET {key}="{str(value)}"', value being the text str(value)
SetText(key, value) == <<"S", "E", "T", " ", key, "=", "\"">> \o value \o <<"\"">>

Frame(fn, pc, msg) ==
    [fn |-> fn, pc |-> pc, msg |-> msg, elapsed |-> FALSE, result |-> None,
     exc |-> "none"]

\* what get returns once its wait is over
get_result(c) == c.data

\* a set that reports whether the command was acknowledged
set_result_acknowledged(c) == c.acknowledged

\* a set that reports whether an error text is there
set_result_inverted(c) == c.error # None

\* what set(wait=True) returns once its wait is over
set_result(c) == c.error = None

\* safe_set once its wait is over: the frame it ends in
safe_set_result(f, c) ==
    IF c.error # None
    THEN [f EXCEPT !.pc = "raised", !.exc = "ValueError", !.result = f.msg \o c.error]
    ELSE [f EXCEPT !.pc = "returned", !.result = None]

\* the frame of a call after its wait ended with outcome w; the holder of
\* a command (fn "cmd") reads cmd.error as set does
after_wait(f, c, w) ==
    IF w = "TimeoutError"
    THEN [f EXCEPT !.pc = "raised", !.exc = "TimeoutError"]
    ELSE IF f.fn = "get"
         THEN [f EXCEPT !.pc = "returned", !.result = get_result(c)]
    ELSE IF f.fn = "safe_set" THEN safe_set_result(f, c)
    ELSE [f EXCEPT !.pc = "returned", !.result = set_result(c)]

\* PilarDriver.get up to its wait
get(key) ==
    /\ Becomes(execute(Protocol, GetText(key)))
    /\ calls' = Append(calls, Frame("get", "waiting", <<>>))
    /\ UNCHANGED <<data, received, abort_event, op, errors, now>>

\* PilarDriver.set up to its wait, or to its return of the command
set(key, value, waitflag) ==
    /\ Becomes(execute(Protocol, SetText(key, value)))
    /\ calls' = Append(calls, IF waitflag THEN Frame("set", "waiting", <<>>)
                                          ELSE Frame("cmd", "handle", <<>>))
    /\ UNCHANGED <<data, received, abort_event, op, errors, now>>

\* PilarDriver.safe_set up to its wait
safe_set(key, value, msg) ==
    /\ Becomes(execute(Protocol, SetText(key, value)))
    /\ calls' = Append(calls, Frame("safe_set", "waiting", msg))
    /\ UNCHANGED <<data, received, abort_event, op, errors, now>>

\* the holder of a command returned by set(wait=False) awaits cmd.wait()
join(r) ==
    /\ calls[r].pc = "handle"
    /\ calls' = [calls EXCEPT ![r].pc = "waiting"]
    /\ UNCHANGED <<buffer, logged_in, id, commands, cmds, transport, data,
                   received, failed, abort_event, op, errors, now>>

\* the event loop runs the suspended call r, whose timeout has not run out
resume(r) ==
    /\ calls[r].pc = "waiting"
    /\ wait(cmds[r], FALSE, abort_event) # "pending"
    /\ calls' = [calls EXCEPT ![r] =
                    after_wait(@, cmds[r], wait(cmds[r], FALSE, abort_event))]
    /\ UNCHANGED <<buffer, logged_in, id, commands, cmds, transport, data,
                   received, failed, abort_event, op, errors, now>>

\* a timeout that takes the command from the open list
elapse_closing(r) ==
    /\ calls[r].pc = "waiting"
    /\ calls' = [calls EXCEPT ![r] =
                    after_wait([@ EXCEPT !.elapsed = TRUE], cmds[r],
                               wait(cmds[r], TRUE, abort_event))]
    /\ commands' = RemoveAll(commands, <<r>>)
    /\ UNCHANGED <<buffer, logged_in, id, cmds, transport, data,
                   received, failed, abort_event, op, errors, now>>

\* the timeout of call r's wait_for runs out
elapse(r) ==
    /\ calls[r].pc = "waiting"
    /\ calls' = [calls EXCEPT ![r] =
                    after_wait([@ EXCEPT !.elapsed = TRUE], cmds[r],
                               wait(cmds[r], TRUE, abort_event))]
    /\ UNCHANGED <<buffer, logged_in, id, commands, cmds, transport, data,
                   received, failed, abort_event, op, errors, now>>

\* somebody sets the abort event
set_abort ==
    /\ ~abort_event
    /\ abort_event' = TRUE
    /\ UNCHANGED <<buffer, logged_in, id, commands, cmds, transport, data,
                   received, failed, calls, op, errors, now>>

\* the transport delivers bytes: PilarClientProtocol.data_received
receive(bytes) ==
    /\ Becomes(data_received(Protocol, bytes))
    /\ data' = bytes
    /\ received' = received + 1
    /\ UNCHANGED <<calls, abort_event, op, errors, now>>

(***************************************************************************)
(* The server's lines.                                                     *)
(***************************************************************************)
Reply(n, body) == PyStr(n) \o <<" ">> \o body

DataBody(key, value) == DATA_INLINE \o <<" ">> \o key \o <<"=">> \o value

QuotedAbc == <<"\"", "a", "b", "c", "\"">>

QuotedAQuoteB == <<"\"", "a", "\"", "b", "\"">>

AckBodies == {COMMAND_OK, COMMAND_ERROR \o <<" ", "x">>}

EndBodies == {COMMAND_COMPLETE, COMMAND_FAILED}

DataBodies ==
    {DataBody(<<"a">>, QuotedAbc), DataBody(<<"a">>, QuotedAQuoteB),
     DataBody(<<"b">>, <<"1">>)}

\* every line the modelled server sends, with the ids a command can have
ServerLines ==
    {Reply(n, b) : n \in 1..MaxId, b \in AckBodies \cup EndBodies \cup DataBodies}

(***************************************************************************)
(* The exchange layer: commands are executed, the server's lines arrive in *)
(* any order, one line per call of data_received.                          *)
(***************************************************************************)
NoOp == [name |-> "none", pc |-> "idle"]

Init ==
    /\ buffer = <<>>
    /\ logged_in = FALSE
    /\ id = 0
    /\ commands = <<>>
    /\ cmds = <<>>
    /\ transport = <<>>
    /\ data = <<>>
    /\ received = 0
    /\ failed = "none"
    /\ calls = <<>>
    /\ abort_event = FALSE
    /\ op = NoOp
    /\ errors = <<>>
    /\ now = 0

Next ==
    \/ id < MaxId /\ set("K", <<"1">>, FALSE)
    \/ \E ln \in ServerLines : received < MaxLines /\ receive(ln \o <<NL>>)

Spec == Init /\ [][Next]_vars

(***************************************************************************)
(* The primitive operations: set with and without wait and safe_set are    *)
(* called, their waits end or time out, commands returned by               *)
(* set(wait=False) are awaited later, the abort event is set at any time.  *)
(* The server acknowledges and finishes the commands in any order.         *)
(***************************************************************************)
Context == <<"E", ":">>

\* the ids the server's lines carry: those of the open commands, and one
\* that belongs to no command of this driver yet
CallIds == {cmds[commands[i]].id : i \in 1..Len(commands)} \cup {id + 1}

\* the server acknowledges and finishes commands
CallLines == {Reply(n, b) : n \in CallIds, b \in AckBodies \cup EndBodies}

NextCalls ==
    \/ \E w \in BOOLEAN : Len(calls) < MaxCalls /\ set("K", <<"1">>, w)
    \/ Len(calls) < MaxCalls /\ safe_set("K", <<"1">>, Context)
    \/ \E r \in 1..Len(calls) : join(r)
    \/ \E r \in 1..Len(calls) : resume(r)
    \/ \E r \in 1..Len(calls) : elapse(r)
    \/ set_abort
    \/ \E ln \in CallLines : received < MaxReplies /\ receive(ln \o <<NL>>)

SpecCalls == Init /\ [][NextCalls]_vars

(***************************************************************************)
(* Properties of the exchange layer.                                       *)
(***************************************************************************)
DataKeys == {<<"a">>, <<"b">>}

DataValues == {QuotedAbc, QuotedAQuoteB, <<"1">>}

\* the line's leading token is the integer n
LeadsWith(ln, n) ==
    /\ Split(ln) # <<>>
    /\ PyIntOk(Split(ln)[1])
    /\ PyInt(Split(ln)[1]) = n

IsOpen(r) == \E i \in 1..Len(commands) : commands[i] = r

\* the value the mapping d holds for key
Lookup(d, key) == d[CHOOSE i \in 1..Len(d) : d[i][1] = key][2]

HasKey(d, key) == \E i \in 1..Len(d) : d[i][1] = key

\* the step dispatches exactly the line of id n and the given body
Receives(n, body) == received' # received /\ data' = Reply(n, body) \o <<NL>>

\* C1: a dispatched line whose leading token is the id N changes no field
\* of a command whose id is not N, whatever commands are open.
C1_OnlyTheAddressedCommandChanges ==
    [][\A ln \in ServerLines : \A n \in 1..(MaxId + 1) :
            (received' # received /\ data' = ln \o <<NL>> /\ LeadsWith(ln, n)) =>
                \A r \in 1..Len(cmds) : cmds[r].id # n => cmds'[r] = cmds[r]]_vars

\* C1's case: two commands are open, the last line carried the id of the
\* second and changed it, the first is as it was created.
C1_Witness ==
    /\ Len(commands) = 2
    /\ received > 0
    /\ LeadsWith(PySlice(data, 0, -1), cmds[commands[2]].id)
    /\ cmds[commands[2]].acknowledged
    /\ cmds[commands[1]] = [PilarCommand(cmds[commands[1]].command)
                               EXCEPT !.id = cmds[commands[1]].id, !.sent = TRUE]

\* C2: the ids handed out are 1, 2, 3, ... in call order, and no two open
\* commands share an id.
C2_IdsCountUp ==
    /\ id = Len(cmds)
    /\ \A r \in 1..Len(cmds) : cmds[r].id = r
    /\ \A i, j \in 1..Len(commands) :
          cmds[commands[i]].id = cmds[commands[j]].id => i = j

\* C2's case: the first command was removed and a second one is open.
C2_Witness ==
    /\ Len(cmds) = 2
    /\ cmds[1].completed
    /\ commands = <<2>>
    /\ cmds[2].values # <<>>

\* C3: a DATA INLINE line of an open command adds its key at the end of
\* the mapping if the key is new and keeps the key's place if it is not,
\* leaves the other keys' values alone, and makes lastValue the value it
\* stored; no key is held twice.
C3_ValuesInFirstSeenOrder ==
    /\ [](\A r \in 1..Len(cmds) : \A i, j \in 1..Len(cmds[r].values) :
            cmds[r].values[i][1] = cmds[r].values[j][1] => i = j)
    /\ [][\A r \in 1..Len(cmds) : \A k \in DataKeys : \A v \in DataValues :
            (IsOpen(r) /\ Receives(cmds[r].id, DataBody(k, v))) =>
                /\ DictKeys(cmds'[r].values) =
                       IF HasKey(cmds[r].values, k)
                       THEN DictKeys(cmds[r].values)
                       ELSE Append(DictKeys(cmds[r].values), k)
                /\ \A i \in 1..Len(cmds[r].values) :
                       cmds[r].values[i][1] # k =>
                           cmds'[r].values[i] = cmds[r].values[i]
                /\ cmds'[r].data = Lookup(cmds'[r].values, k)
                /\ cmds'[r].data \in {v, PySlice(v, 1, -1)}]_vars

\* C3's case: key a, then key b, then key a again with another value.
C3_Witness ==
    /\ received = 3
    /\ Len(cmds) >= 1
    /\ DictKeys(cmds[1].values) = <<(<<"a">>), (<<"b">>)>>
    /\ cmds[1].data = Lookup(cmds[1].values, <<"a">>)
    /\ ~cmds[1].completed

\* C4 as stated: the value "abc" is stored as abc and the value "a"b" is
\* stored unchanged.
C4_AsStated ==
    [][\A r \in 1..Len(cmds) : \A k \in DataKeys :
            /\ (IsOpen(r) /\ Receives(cmds[r].id, DataBody(k, QuotedAbc)))
                   => cmds'[r].data = <<"a", "b", "c">>
            /\ (IsOpen(r) /\ Receives(cmds[r].id, DataBody(k, QuotedAQuoteB)))
                   => cmds'[r].data = QuotedAQuoteB]_vars

\* C4, amended: the value "abc" is stored as abc and the value "a"b" is
\* stored as a"b: a value that starts and ends with a double quote loses
\* exactly that pair, whatever stands between; a value without them is
\* stored as it is.
C4_OneLayerStripped ==
    [][\A r \in 1..Len(cmds) : \A k \in DataKeys :
            /\ (IsOpen(r) /\ Receives(cmds[r].id, DataBody(k, QuotedAbc)))
                   => /\ cmds'[r].data = <<"a", "b", "c">>
                      /\ Lookup(cmds'[r].values, k) = <<"a", "b", "c">>
            /\ (IsOpen(r) /\ Receives(cmds[r].id, DataBody(k, QuotedAQuoteB)))
                   => /\ cmds'[r].data = <<"a", "\"", "b">>
                      /\ Lookup(cmds'[r].values, k) = <<"a", "\"", "b">>
            /\ (IsOpen(r) /\ Receives(cmds[r].id, DataBody(k, <<"1">>)))
                   => cmds'[r].data = <<"1">>]_vars

\* C4's case: a command holds the stripped a"b.
C4_Witness ==
    \E r \in 1..Len(cmds) :
        /\ cmds[r].data = <<"a", "\"", "b">>
        /\ data = Reply(cmds[r].id, DataBody(<<"a">>, QuotedAQuoteB)) \o <<NL>>

\* C5: the terminal signal is set only by a line with the command's id and
\* COMMAND COMPLETE or COMMAND FAILED; the command leaves the open list in
\* that same step; a finished command is never open and never changes.
C5_TerminalOnceThenFrozen ==
    /\ [](\A r \in 1..Len(cmds) : cmds[r].completed <=> ~IsOpen(r))
    /\ [][\A r \in 1..Len(cmds) :
            /\ (~cmds[r].completed /\ cmds'[r].completed) =>
                   /\ \E b \in EndBodies : Receives(cmds[r].id, b)
                   /\ \A i \in 1..Len(commands') : commands'[i] # r
            /\ cmds[r].completed => cmds'[r] = cmds[r]]_vars

\* C5's case: a command finished, and a later line with its id left it as
\* it was.
C5_Witness ==
    /\ Len(cmds) >= 1
    /\ cmds[1].completed
    /\ cmds[1].values = <<>>
    /\ ~cmds[1].acknowledged
    /\ \E b \in DataBodies \cup AckBodies : data = Reply(cmds[1].id, b) \o <<NL>>

(***************************************************************************)
(* Properties of the primitive operations.                                 *)
(***************************************************************************)
TimedOut(f) == f.pc = "raised" /\ f.exc = "TimeoutError"

LeavesWait(r) == calls[r].pc = "waiting" /\ calls'[r].pc # "waiting"

ErrorBody == COMMAND_ERROR \o <<" ", "x">>

C8_SetReportsErrorText ==
    /\ [](\A r \in 1..Len(calls) :
            /\ cmds[r].error # None =>
                  /\ LeadsWith(cmds[r].error, cmds[r].id)
                  /\ Contains(cmds[r].error, COMMAND_ERROR)
            /\ (calls[r].fn = "set" /\ calls[r].pc = "returned") =>
                  calls[r].result = (cmds[r].error = None)
            /\ (calls[r].fn = "safe_set" /\ calls[r].pc = "returned") =>
                  cmds[r].error = None
            /\ (calls[r].fn = "safe_set" /\ calls[r].pc = "raised" /\ ~TimedOut(calls[r])) =>
                  /\ cmds[r].error # None
                  /\ calls[r].exc = "ValueError"
                  /\ calls[r].result = calls[r].msg \o cmds[r].error)
    /\ [][\A r \in 1..Len(calls) :
            /\ \A b \in AckBodies \cup EndBodies :
                  (IsOpen(r) /\ Receives(cmds[r].id, b)) =>
                      cmds'[r].error = IF b = ErrorBody
                                       THEN Reply(cmds[r].id, b)
                                       ELSE cmds[r].error
            /\ (calls[r].fn \in {"set", "safe_set"} /\ LeavesWait(r) /\ cmds[r].completed)
                  => ~TimedOut(calls'[r])]_vars

\* C8's case: safe_set raised the context message followed by the error
\* line.
C8_Witness ==
    \E r \in 1..Len(calls) :
        /\ calls[r].fn = "safe_set"
        /\ calls[r].pc = "raised"
        /\ calls[r].exc = "ValueError"
        /\ calls[r].result = Context \o Reply(cmds[r].id, ErrorBody)

(***************************************************************************)
(* PilarError: the table of the known errors and the errors seen so far.   *)
(* The name of an error is a text of one element.  PilarError._errors      *)
(* is a sequence of records, name and dates, in the order the errors were  *)
(* first seen.                                                             *)
(***************************************************************************)
ErrorBehaviour(ignore, reset_timeout, accum_max, accum_span) ==
    [ignore |-> ignore, reset_max |-> 10, reset_timeout |-> reset_timeout,
     accum_max |-> accum_max, accum_span |-> accum_span]

Ignored == ErrorBehaviour(TRUE, 300, 5, 86400)

ERRORS ==
    << <<"ERR_GPS_PositionLost", Ignored>>,
       <<"ERR_GPS_LeapSecond", Ignored>>,
       <<"ERR_GPS_TooFewSatellites", Ignored>>,
       <<"ERR_Cabinet_TemperatureTooCold", Ignored>>,
       <<"ERR_FilterWheel_RefMismatch", ErrorBehaviour(FALSE, 0, 5, 3600)>>,
       <<"ERR_Elevation_ETELExecError", ErrorBehaviour(FALSE, 0, 5, 60)>>,
       <<"ERR_Azimuth_ETELExecError", ErrorBehaviour(FALSE, 0, 5, 3600)>>,
       <<"ERR_Oil_TemperatureLow", Ignored>>,
       <<"ERR_Oil_NoExtractionTimeout", ErrorBehaviour(FALSE, 0, 5, 3600)>>,
       <<"ERR_Brake_ClosedFromOther", ErrorBehaviour(FALSE, 0, 5, 60)>>,
       <<"ERR_Azimuth_ETELError", ErrorBehaviour(FALSE, 0, 5, 3600)>>,
       <<"ERR_Azimuth_ETELWarning", ErrorBehaviour(FALSE, 0, 5, 3600)>>,
       <<"ERR_Elevation_ETELError", ErrorBehaviour(FALSE, 0, 5, 3600)>>,
       <<"ERR_Elevation_ETELWarning", ErrorBehaviour(FALSE, 0, 5, 3600)>> >>

\* error_name in ERRORS
Known(name) == Len(name) = 1 /\ \E i \in 1..Len(ERRORS) : ERRORS[i][1] = name[1]

\* ERRORS[error_name]
Behaviour(name) == ERRORS[CHOOSE i \in 1..Len(ERRORS) : ERRORS[i][1] = name[1]][2]

\* an occur() that does not look at the ignore flag
occur_always(e, t) == [e EXCEPT !.dates = Append(@, t)]

\* PilarError.occur at time t, e being the record of the error
occur(e, t) ==
    IF Behaviour(e.name).ignore THEN e ELSE [e EXCEPT !.dates = Append(@, t)]

\* a create that makes a new instance for every occurrence
create_anew(errs, name, t) ==
    IF ~Known(name) THEN [errors |-> errs, err |-> None]
    ELSE LET seen == IF \E i \in 1..Len(errs) : errs[i].name = name
                     THEN errs
                     ELSE Append(errs, [name |-> name, dates |-> <<>>])
         IN  [errors |-> [i \in 1..Len(seen) |->
                             IF seen[i].name = name
                             THEN occur_always([name |-> name, dates |-> <<>>], t)
                             ELSE seen[i]],
              err |-> name]

\* PilarError.create at time t: the errors seen afterwards, and the error
\* returned (its name), None for a name that is not in the table
create(errs, name, t) ==
    IF ~Known(name) THEN [errors |-> errs, err |-> None]
    ELSE LET seen == IF \E i \in 1..Len(errs) : errs[i].name = name
                     THEN errs
                     ELSE Append(errs, [name |-> name, dates |-> <<>>])
         IN  [errors |-> [i \in 1..Len(seen) |->
                             IF seen[i].name = name THEN occur(seen[i], t)
                             ELSE seen[i]],
              err |-> name]

\* s.split(sep) for a separator of one character
RECURSIVE SplitOn(_, _)
SplitOn(s, sep) ==
    LET pos == Find(s, <<sep>>)
    IN  IF pos = -1 THEN <<s>>
        ELSE <<PySlice(s, 0, pos)>> \o SplitOn(PyFrom(s, pos + 1), sep)

\* list_errors: the names it finds in one group of the status list
group_names(group) ==
    LET found == SplitOn(PyFrom(group, RFind(group, <<":">>) + 1), ";")
        names == [i \in 1..Len(found) |-> SplitOn(found[i], "|")[1]]
    IN  SelectSeq(names, LAMBDA name : Len(name) # 0)

\* list_errors: the names it finds in the groups from place i on
RECURSIVE status_names(_, _)
status_names(groups, i) ==
    IF i > Len(groups) THEN <<>>
    ELSE group_names(groups[i]) \o status_names(groups, i + 1)

\* list_errors: PilarError.create for the names from place i on, list being
\* error_list
RECURSIVE create_all(_, _, _, _, _)
create_all(errs, names, i, list, t) ==
    IF i > Len(names) THEN [errors |-> errs, list |-> list]
    ELSE LET made == create(errs, names[i], t)
         IN  create_all(made.errors, names, i + 1, Append(list, made.err), t)

\* PilarDriver.list_errors once its get has returned text, at time t
list_errors(errs, text, t) ==
    create_all(errs, status_names(SplitOn(text, ","), 1), 1, <<>>, t)

(***************************************************************************)
(* PilarError.fatal and PilarError.check_fatal.  Dates are in half         *)
(* seconds, as now is; the spans of a behaviour are in seconds.            *)
(***************************************************************************)
\* a time of s seconds
Seconds(s) == 2 * s

\* (a - b).total_seconds() < s
Within(a, b, s) == a - b < Seconds(s)

\* fatal() that returns without storing the shortened list
fatal_keeping(dates, b) ==
    LET n == Len(dates)
        accum_errors == SelectSeq(dates, LAMBDA d : Within(dates[n], d, b.accum_span))
    IN  IF n > b.reset_max THEN [fatal |-> TRUE, dates |-> dates]
        ELSE IF n >= 2 /\ Within(dates[n], dates[n - 1], b.reset_timeout)
             THEN [fatal |-> TRUE, dates |-> dates]
        ELSE IF Len(accum_errors) > b.accum_max THEN [fatal |-> TRUE, dates |-> dates]
        ELSE [fatal |-> FALSE, dates |-> dates]

\* fatal() that is fatal as soon as accum_max errors lie within accum_span
fatal_at_accum_max(dates, b) ==
    LET n == Len(dates)
        accum_errors == SelectSeq(dates, LAMBDA d : Within(dates[n], d, b.accum_span))
    IN  IF n > b.reset_max THEN [fatal |-> TRUE, dates |-> dates]
        ELSE IF n >= 2 /\ Within(dates[n], dates[n - 1], b.reset_timeout)
             THEN [fatal |-> TRUE, dates |-> dates]
        ELSE IF Len(accum_errors) >= b.accum_max THEN [fatal |-> TRUE, dates |-> dates]
        ELSE [fatal |-> FALSE, dates |-> accum_errors]

\* fatal() that compares the last two dates only from the third on
fatal_from_third(dates, b) ==
    LET n == Len(dates)
        accum_errors == SelectSeq(dates, LAMBDA d : Within(dates[n], d, b.accum_span))
    IN  IF n > b.reset_max THEN [fatal |-> TRUE, dates |-> dates]
        ELSE IF n >= 3 /\ Within(dates[n], dates[n - 1], b.reset_timeout)
             THEN [fatal |-> TRUE, dates |-> dates]
        ELSE IF Len(accum_errors) > b.accum_max THEN [fatal |-> TRUE, dates |-> dates]
        ELSE [fatal |-> FALSE, dates |-> accum_errors]

\* fatal() that shortens the list before it counts
fatal_pruning_first(dates, b) ==
    LET n == Len(dates)
        accum_errors == SelectSeq(dates, LAMBDA d : Within(dates[n], d, b.accum_span))
    IN  IF Len(accum_errors) > b.reset_max THEN [fatal |-> TRUE, dates |-> dates]
        ELSE IF n >= 2 /\ Within(dates[n], dates[n - 1], b.reset_timeout)
             THEN [fatal |-> TRUE, dates |-> dates]
        ELSE IF Len(accum_errors) > b.accum_max THEN [fatal |-> TRUE, dates |-> dates]
        ELSE [fatal |-> FALSE, dates |-> accum_errors]

\* PilarError.fatal of an instance with the dates and the behaviour b: what
\* it returns, and self._dates afterwards
fatal_of(dates, b) ==
    LET n == Len(dates)
        accum_errors == SelectSeq(dates, LAMBDA d : Within(dates[n], d, b.accum_span))
    IN  IF n > b.reset_max THEN [fatal |-> TRUE, dates |-> dates]
        ELSE IF n >= 2 /\ Within(dates[n], dates[n - 1], b.reset_timeout)
             THEN [fatal |-> TRUE, dates |-> dates]
        ELSE IF Len(accum_errors) > b.accum_max THEN [fatal |-> TRUE, dates |-> dates]
        ELSE [fatal |-> FALSE, dates |-> accum_errors]

\* PilarError.fatal of the instance e of PilarError._errors
fatal(e) == fatal_of(e.dates, Behaviour(e.name))

\* PilarError.check_fatal from place i of PilarError._errors on: it
\* returns at the first instance that is fatal, and the instances before it
\* have stored their shortened lists
RECURSIVE check_fatal(_, _)
check_fatal(errs, i) ==
    IF i > Len(errs) THEN [fatal |-> FALSE, errors |-> errs]
    ELSE LET f == fatal(errs[i])
         IN  IF f.fatal THEN [fatal |-> TRUE, errors |-> errs]
             ELSE check_fatal([errs EXCEPT ![i].dates = f.dates], i + 1)

(***************************************************************************)
(* The composite operations goto and track, and _wait_for_value.  The      *)
(* running operation is a coroutine; op is its frame:                      *)
(*   name     "goto" or "track"                                            *)
(*   args     the texts of its two arguments, as str() writes them         *)
(*   pc       "preamble"    awaiting the set number step of its preamble   *)
(*            "settle"      in the sleep(0.5) that opens _wait_for_value   *)
(*            "poll"        awaiting the get of _wait_for_value            *)
(*            "poll_sleep"  in the sleep(1) that ends a round of its loop  *)
(*            "list_errors" (track) awaiting the get of list_errors        *)
(*            "retry_sleep" in the sleep(1) that follows a failed attempt  *)
(*            "retry_set"   awaiting the set that follows that sleep       *)
(*            "done" / "raised"                                            *)
(*   call     the call it awaits (a place in calls)                        *)
(*   attempt, success   the locals of the same names                       *)
(*   polls    how many times _wait_for_value has called get                *)
(*   result, exc        what it returned, the exception it raised          *)
(* The code between two awaits runs in one step of the event loop.  Such a *)
(* step is a record: the frame it ends in and the command it writes, if    *)
(* any, on the way to its next await.                                      *)
(***************************************************************************)
\* how many polls of one operation the model follows
MaxPolls == 2

\* how many commands of one run the server answers with COMMAND ERROR
MaxErrors == 1

\* range(5)
Attempts == 5

Stay(o) == [op |-> o, fn |-> "none", text |-> <<>>]

Issue(o, fn, text) == [op |-> o, fn |-> fn, text |-> text]

\* return value
finished(o, value) == Stay([o EXCEPT !.pc = "done", !.result = value])

\* an exception leaves the operation
raised(o, e) == Stay([o EXCEPT !.pc = "raised", !.exc = e])

\* float(text) for the texts of whole numbers, which is all the modelled
\* server sends; float(None) is a TypeError, other texts a ValueError
PyFloatOk(text) == PyIntOk(text)

PyFloat(text) == PyInt(text)

\* the sets that open goto(alt, az), in order
goto_preamble(alt, az) ==
    << SetText("POINTING.TRACK", PyStr(0)),
       SetText("POINTING.SETUP.DEROTATOR.SYNCMODE", PyStr(3)),
       SetText("POINTING.SETUP.DEROTATOR.OFFSET", <<"0", ".", "0">>),
       SetText("OBJECT.HORIZONTAL.AZ", az),
       SetText("OBJECT.HORIZONTAL.ALT", alt),
       SetText("POINTING.TRACK", PyStr(2)) >>

\* ra/15. as str() writes it, for the right ascensions of whole hours
hours(ra) == PyStr(ra \div 15) \o <<".", "0">>

\* the sets that open track(ra, dec), in order
track_preamble(ra, dec) ==
    << SetText("POINTING.TRACK", PyStr(0)),
       SetText("POINTING.SETUP.DEROTATOR.SYNCMODE", PyStr(3)),
       SetText("POINTING.SETUP.DEROTATOR.OFFSET", <<"0", ".", "0">>),
       SetText("OBJECT.EQUATORIAL.RA", hours(ra)),
       SetText("OBJECT.EQUATORIAL.DEC", dec),
       SetText("POINTING.TRACK", PyStr(1)) >>

\* sync_mode = 1, then "sync_mode |= 1 << k" for the flags that are set
sync_mode(sync_thermal, sync_port, sync_filter, disable_tracking) ==
    1 + (IF sync_thermal THEN 2 ELSE 0) + (IF sync_port THEN 4 ELSE 0)
      + (IF sync_filter THEN 8 ELSE 0) + (IF disable_tracking THEN 16 ELSE 0)

\* the sets that open focus, in order
focus_preamble(a) ==
    << SetText("POINTING.SETUP.FOCUS.SYNCMODE",
               PyStr(sync_mode(a.sync[1], a.sync[2], a.sync[3], a.sync[4]))),
       SetText("POINTING.SETUP.FOCUS.POSITION", a.position),
       SetText("POINTING.TRACK", PyStr(4)) >>

preamble(o) ==
    IF o.name = "goto" THEN goto_preamble(o.args[1], o.args[2])
    ELSE IF o.name = "track" THEN track_preamble(o.args[1], o.args[2])
    ELSE focus_preamble(o.args)

\* the value _wait_for_value is asked to wait for, and the one to give up at
wanted(o) == IF o.name = "goto" THEN <<"0">> ELSE <<"1", "1">>

unwanted(o) == IF o.name = "goto" THEN None ELSE <<"0">>

\* "for attempt in range(5)": the top of the loop with attempt = o.attempt
attempt_top(o, aborted) ==
    IF o.attempt >= Attempts THEN finished(o, o.success)
    ELSE IF aborted THEN finished(o, FALSE)
    ELSE Stay([o EXCEPT !.pc = "settle"])

\* "success = await self._wait_for_value(...)" and what follows it
wait_for_value_returned(o, success) ==
    IF success THEN finished([o EXCEPT !.success = TRUE], TRUE)
    ELSE IF o.name = "track"
         THEN Issue([o EXCEPT !.success = FALSE, !.pc = "list_errors"], "get",
                    GetText("TELESCOPE.STATUS.LIST"))
    ELSE Stay([o EXCEPT !.success = FALSE, !.pc = "retry_sleep"])

\* _wait_for_value: the top of its "while True"
wait_for_value_top(o, aborted) ==
    IF aborted THEN wait_for_value_returned(o, FALSE)
    ELSE Issue([o EXCEPT !.pc = "poll", !.polls = @ + 1], "get",
               GetText("TELESCOPE.MOTION_STATE"))

\* _wait_for_value: the value read, text being what get returned
wait_for_value_read(o, text) ==
    IF text = None THEN raised(o, "TypeError")
    ELSE IF ~PyFloatOk(text) THEN raised(o, "ValueError")
    ELSE IF PyFloat(text) = PyFloat(wanted(o))
         THEN wait_for_value_returned(o, TRUE)
    ELSE IF unwanted(o) # None /\ PyFloat(text) = PyFloat(unwanted(o))
         THEN wait_for_value_returned(o, FALSE)
    ELSE Stay([o EXCEPT !.pc = "poll_sleep"])

\* a track that retries whatever list_errors returns
errors_listed_retrying(o, text, t) ==
    IF text = None THEN raised(o, "AttributeError")
    ELSE Stay([o EXCEPT !.pc = "retry_sleep"])

\* track: "if len(await self.list_errors()) > 0", text being what the get
\* of list_errors returned at time t; None has no split
errors_listed(o, text, t) ==
    IF text = None THEN raised(o, "AttributeError")
    ELSE IF Len(list_errors(errors, text, t).list) > 0 THEN finished(o, FALSE)
    ELSE Stay([o EXCEPT !.pc = "retry_sleep"])

\* a driver in which only the listing of clear_errors reaches the registry
noted_by_clear_errors(o, f, t) ==
    IF o.pc = "list_errors" /\ f.pc = "returned" /\ f.result # None
       /\ o.name \in {"clear_errors", "_error_thread_func"}
    THEN check_fatal(list_errors(errors, f.result, t).errors, 1).errors
    ELSE errors

\* PilarError._errors after the call f the operation awaited has returned
noted(o, f, t) ==
    IF o.pc = "list_errors" /\ f.pc = "returned" /\ f.result # None
    THEN IF o.name \in {"clear_errors", "_error_thread_func"}
         THEN check_fatal(list_errors(errors, f.result, t).errors, 1).errors
         ELSE list_errors(errors, f.result, t).errors
    ELSE errors

(***************************************************************************)
(* focus.  Its frame has the locals delta, waited and attempts; args is    *)
(* the record of its arguments: position (the text str() writes), timeout  *)
(* and sleep (ms), accuracy, retry, and the four sync flags.  Distances    *)
(* and accuracy are whole numbers of one unit.  Further values of pc:      *)
(*   "focus_sleep"     in the sleep of its loop                            *)
(*   "distance"        awaiting the get of the target distance             *)
(*   "again_position", "again_track"   awaiting the sets of a new attempt  *)
(*   "realpos"         awaiting the get of the position reached            *)
(***************************************************************************)
\* delta = 1e10, as far as the integers of the model reach
delta_start == 1000000000

\* abs(x)
Abs(x) == IF x < 0 THEN 0 - x ELSE x

\* "while delta >= accuracy": the top of the loop, and what follows it
focus_top(o, aborted) ==
    IF o.delta >= o.args.accuracy
    THEN IF aborted THEN finished(o, FALSE)
         ELSE Stay([o EXCEPT !.pc = "focus_sleep"])
    ELSE Issue([o EXCEPT !.pc = "realpos"], "get",
               GetText("POSITION.INSTRUMENTAL.FOCUS.REALPOS"))

\* after the sleep of the loop: "waited += sleep" and the get
focus_wake(o) ==
    Issue([o EXCEPT !.pc = "distance", !.waited = @ + o.args.sleep], "get",
          GetText("POSITION.INSTRUMENTAL.FOCUS.TARGETDISTANCE"))

\* a focus that starts a new attempt without resetting waited
focus_late_keeping_waited(o, aborted) ==
    IF o.waited > o.args.timeout
    THEN IF o.attempts < o.args.retry
         THEN Issue([o EXCEPT !.attempts = @ + 1, !.pc = "again_position"],
                    "set", SetText("POINTING.SETUP.FOCUS.POSITION", o.args.position))
         ELSE finished(o, FALSE)
    ELSE focus_top(o, aborted)

\* "if waited > timeout", delta being read
focus_late(o, aborted) ==
    IF o.waited > o.args.timeout
    THEN IF o.attempts < o.args.retry
         THEN Issue([o EXCEPT !.attempts = @ + 1, !.waited = 0,
                              !.pc = "again_position"],
                    "set", SetText("POINTING.SETUP.FOCUS.POSITION", o.args.position))
         ELSE finished(o, FALSE)
    ELSE focus_top(o, aborted)

\* "delta = abs(float(await self.get(...)))", text being what get returned
focus_read(o, text, aborted) ==
    IF text = None THEN raised(o, "TypeError")
    ELSE IF ~PyFloatOk(text) THEN raised(o, "ValueError")
    ELSE focus_late([o EXCEPT !.delta = Abs(PyFloat(text))], aborted)

\* "foc = await self.get(...)", float(foc) and "return True"
focus_reached(o, text) ==
    IF text = None THEN raised(o, "TypeError")
    ELSE IF ~PyFloatOk(text) THEN raised(o, "ValueError")
    ELSE finished(o, TRUE)

\* focus goes on after the call it awaited has returned
focus_continue(o, f, aborted) ==
    IF o.pc = "distance" THEN focus_read(o, f.result, aborted)
    ELSE IF o.pc = "again_position"
         THEN Issue([o EXCEPT !.pc = "again_track"], "set",
                    SetText("POINTING.TRACK", PyStr(4)))
    ELSE IF o.pc = "again_track" THEN focus_top(o, aborted)
    ELSE focus_reached(o, f.result)

(***************************************************************************)
(* change_filter.  args is the pair of filter_name and force_forward;      *)
(* the frame has the local cur_id and created, the filter ids of the       *)
(* coroutines _change_filter_to_id that were created, in order.  pc is     *)
(* "currpos" while it awaits the get of the current position.              *)
(***************************************************************************)
\* self._filters as init_filters left it: a wheel of six
filters == <<"U", "B", "V", "R", "I", "clear">>

\* list.index counted from 0; -1 stands for its ValueError
index(list, x) ==
    IF \E i \in 1..Len(list) : list[i] = x
    THEN SetMin({i \in 1..Len(list) : list[i] = x}) - 1
    ELSE -1

\* "for i in range(3)": cur_id after the rounds from i on
RECURSIVE how_far(_, _, _)
how_far(cur_id, filter_id, i) ==
    IF i >= 3 THEN cur_id
    ELSE LET next == IF cur_id + 1 >= Len(filters) THEN 0 ELSE cur_id + 1
         IN  IF next = filter_id THEN next ELSE how_far(next, filter_id, i + 1)

\* "while cur_id != filter_id".  The call of _change_filter_to_id is not
\* awaited: it creates a coroutine that never runs, and "not" of a
\* coroutine object is False, so the loop goes on.
RECURSIVE forward(_, _, _)
forward(cur_id, filter_id, created) ==
    IF cur_id = filter_id THEN created
    ELSE LET there == how_far(cur_id, filter_id, 0)
         IN  forward(there, filter_id, Append(created, there))

\* change_filter once its get has returned text
change_filter_read(o, text) ==
    IF text = None THEN raised(o, "TypeError")
    ELSE IF ~PyFloatOk(text) THEN raised(o, "ValueError")
    ELSE LET cur_id == PyFloat(text)
             filter_id == index(filters, o.args[1])
         IN  IF filter_id < 0 THEN raised([o EXCEPT !.cur_id = cur_id], "ValueError")
             ELSE IF filter_id = cur_id
                  THEN finished([o EXCEPT !.cur_id = cur_id], TRUE)
             ELSE IF o.args[2]
                  THEN finished([o EXCEPT !.cur_id = filter_id,
                                          !.created = forward(cur_id, filter_id, <<>>)],
                                TRUE)
             ELSE finished([o EXCEPT !.cur_id = cur_id, !.created = <<filter_id>>],
                           TRUE)

(***************************************************************************)
(* init and park.  args is the record of attempts, wait and                *)
(* attempt_timeout, the times in tenths of a second; the frame has the     *)
(* locals attempt and waited (tenths of a second).  Values of pc:          *)
(*   "ready"        awaiting the get that opens the operation              *)
(*   "ready_set"    awaiting the set of an attempt                         *)
(*   "ready_wait"   in the sleep(wait) of an attempt                       *)
(*   "ready_poll"   awaiting the get of the loop of an attempt             *)
(*   "ready_sleep"  (init) in the sleep(0.5) of that loop                  *)
(***************************************************************************)
\* the ready state the operation is after
ready_target(o) == IF o.name = "init" THEN 1 ELSE 0

\* "for attempt in range(attempts)": the top of the loop
ready_attempt(o) ==
    IF o.attempt >= o.args.attempts THEN finished(o, FALSE)
    ELSE Issue([o EXCEPT !.pc = "ready_set"], "set",
               SetText("TELESCOPE.READY", PyStr(ready_target(o))))

\* a loop that polls once more when waited has reached attempt_timeout
ready_while_inclusive(o) ==
    IF o.waited <= o.args.attempt_timeout
    THEN Issue([o EXCEPT !.pc = "ready_poll"], "get", GetText("TELESCOPE.READY_STATE"))
    ELSE ready_attempt([o EXCEPT !.attempt = @ + 1])

\* "while waited < attempt_timeout": the top of the loop
ready_while(o) ==
    IF o.waited < o.args.attempt_timeout
    THEN Issue([o EXCEPT !.pc = "ready_poll"], "get", GetText("TELESCOPE.READY_STATE"))
    ELSE ready_attempt([o EXCEPT !.attempt = @ + 1])

\* float(ready) == target, text being what the get returned
ready_reached(o, text) == PyFloat(text) = ready_target(o)

\* an operation that starts its attempts whatever the first get read
ready_first_unread(o, text) ==
    IF text = None THEN raised(o, "TypeError")
    ELSE IF ~PyFloatOk(text) THEN raised(o, "ValueError")
    ELSE ready_attempt(o)

\* the get that opens the operation has returned text
ready_first(o, text) ==
    IF text = None THEN raised(o, "TypeError")
    ELSE IF ~PyFloatOk(text) THEN raised(o, "ValueError")
    ELSE IF ready_reached(o, text) THEN finished(o, TRUE)
    ELSE ready_attempt(o)

\* the get of the loop has returned text: init counts half a second and
\* sleeps, park goes to the top of its loop at once
ready_polled(o, text) ==
    IF text = None THEN raised(o, "TypeError")
    ELSE IF ~PyFloatOk(text) THEN raised(o, "ValueError")
    ELSE IF ready_reached(o, text) THEN finished(o, TRUE)
    ELSE IF o.name = "init"
         THEN Stay([o EXCEPT !.waited = @ + 5, !.pc = "ready_sleep"])
    ELSE ready_while(o)

\* init and park go on after the call they awaited has returned
ready_continue(o, f) ==
    IF o.pc = "ready" THEN ready_first(o, f.result)
    ELSE IF o.pc = "ready_set" THEN Stay([o EXCEPT !.pc = "ready_wait"])
    ELSE ready_polled(o, f.result)

\* init and park go on after a sleep: "waited = 0." follows sleep(wait)
ready_wake(o) ==
    IF o.pc = "ready_wait" THEN ready_while([o EXCEPT !.waited = 0])
    ELSE ready_while(o)

(***************************************************************************)
(* clear_errors.  The frame has the local level.  What it returns is       *)
(* written as str() writes it: True, False, or None when it ends without   *)
(* a return.  Values of pc:                                                *)
(*   "global"       awaiting the get of the global status                  *)
(*   "list_errors"  awaiting the get of list_errors                        *)
(*   "clear"        awaiting the set that clears                           *)
(***************************************************************************)
\* level & (0x01 | 0x02), for level >= 0
severe(level) == level % 4 # 0

\* clear_errors that clears whatever check_fatal returns
clear_errors_unchecked(o, f, t) ==
    IF o.pc = "global"
    THEN IF f.result = None THEN raised(o, "TypeError")
         ELSE IF ~PyIntOk(f.result) THEN raised(o, "ValueError")
         ELSE IF severe(PyInt(f.result))
              THEN Issue([o EXCEPT !.level = PyInt(f.result), !.pc = "list_errors"],
                         "get", GetText("TELESCOPE.STATUS.LIST"))
         ELSE finished(o, <<"True">>)
    ELSE IF o.pc = "list_errors"
    THEN IF f.result = None THEN raised(o, "AttributeError")
         ELSE Issue([o EXCEPT !.pc = "clear"], "set",
                    SetText("TELESCOPE.STATUS.CLEAR", PyStr(o.level)))
    ELSE finished(o, None)

\* clear_errors goes on after the call f it awaited has returned, at time t
clear_errors_continue(o, f, t) ==
    IF o.pc = "global"
    THEN IF f.result = None THEN raised(o, "TypeError")
         ELSE IF ~PyIntOk(f.result) THEN raised(o, "ValueError")
         ELSE IF severe(PyInt(f.result))
              THEN Issue([o EXCEPT !.level = PyInt(f.result), !.pc = "list_errors"],
                         "get", GetText("TELESCOPE.STATUS.LIST"))
         ELSE finished(o, <<"True">>)
    ELSE IF o.pc = "list_errors"
    THEN IF f.result = None THEN raised(o, "AttributeError")
         ELSE IF check_fatal(list_errors(errors, f.result, t).errors, 1).fatal
              THEN finished(o, <<"False">>)
         ELSE Issue([o EXCEPT !.pc = "clear"], "set",
                    SetText("TELESCOPE.STATUS.CLEAR", PyStr(o.level)))
    ELSE finished(o, None)

(***************************************************************************)
(* reset_focus_offset.  "self.set(..., wait=False)" without await makes a  *)
(* coroutine and writes nothing; wait_for_all awaits the two coroutines in *)
(* turn, and each runs set to its return of the command without            *)
(* suspending: both SETs are written in one step of the event loop.        *)
(***************************************************************************)
\* str(x) of a float x that is a whole number
PyStrFloat(x) ==
    (IF x < 0 THEN <<"-">> ELSE <<>>) \o PyStr(Abs(x)) \o <<".", "0">>

\* a step of the operation o that executes the commands texts and waits
\* for none of them
Launch(o, texts) == [op |-> o, fn |-> "launch", text |-> texts]

\* the two sets of reset_focus_offset, in the order wait_for_all awaits them
offset_sets(focus_pos, offset) ==
    << SetText("POSITION.INSTRUMENTAL.FOCUS.TARGETPOS", PyStrFloat(focus_pos + offset)),
       SetText("POSITION.INSTRUMENTAL.FOCUS.OFFSET", PyStr(0)) >>

\* reset_focus_offset goes on after the get f it awaited has returned
reset_focus_offset_continue(o, f) ==
    IF f.result = None THEN raised(o, "TypeError")
    ELSE IF ~PyFloatOk(f.result) THEN raised(o, "ValueError")
    ELSE IF o.pc = "targetpos"
    THEN Issue([o EXCEPT !.focus = PyFloat(f.result), !.pc = "offset"], "get",
               GetText("POSITION.INSTRUMENTAL.FOCUS.OFFSET"))
    ELSE IF Abs(PyFloat(f.result)) > 0
    THEN Launch([o EXCEPT !.offset = PyFloat(f.result), !.pc = "done"],
                offset_sets(o.focus, PyFloat(f.result)))
    ELSE finished(o, None)

(***************************************************************************)
(* open.  The frame counts the sleeps of a tenth of a second, five of      *)
(* which make a step of the clock.  Values of pc:                          *)
(*   "connecting"   awaiting create_connection                             *)
(*   "login_sleep"  in the sleep of the login loop                         *)
(***************************************************************************)
\* an open that does not look at the login
open_unchecked(o, logged) == finished(o, None)

\* "while self.protocol is None or not self.protocol.logged_in", the
\* protocol being there once the connection is made
open_while(o, logged) ==
    IF ~logged THEN Stay([o EXCEPT !.pc = "login_sleep"])
    ELSE finished(o, None)

\* open goes on after "await asyncio.sleep(0.1)"
open_wake(o, logged) == open_while([o EXCEPT !.tenths = (@ + 1) % 5], logged)

(***************************************************************************)
(* _error_thread_func, the background task.  Its frame has the frames of   *)
(* clear_errors and check_errors, which it calls, folded in: stage says    *)
(* which of the two is running and pc is then that one's.  protocol is     *)
(* self.protocol as the task sees it: "None" until the connection is made. *)
(* rounds counts the iterations begun.  Values of pc of its own:           *)
(*   "backoff"       in the sleep(5) of "not logged in"                    *)
(*   "error_sleep"   in the sleep(5) that precedes check_errors            *)
(*   "loop_sleep"    in the sleep(5) that ends an iteration                *)
(*   "check_global"  awaiting the get of check_errors                      *)
(***************************************************************************)
\* "self._has_error = not await self.clear_errors()": the call, whose get
\* is self.protocol.execute
error_thread_clear(o) ==
    IF o.protocol = "None" THEN raised(o, "AttributeError")
    ELSE Issue([o EXCEPT !.stage = "clear_errors", !.pc = "global", !.level = 0,
                         !.result = None],
               "get", GetText("TELESCOPE.STATUS.GLOBAL"))

\* "while True:" and the test of the login
error_thread_top(o, logged) ==
    IF o.protocol = "None" \/ ~logged
    THEN Stay([o EXCEPT !.pc = "backoff", !.rounds = @ + 1])
    ELSE error_thread_clear([o EXCEPT !.rounds = @ + 1])

\* the task goes on after a sleep
error_thread_wake(o, logged) ==
    IF o.pc = "backoff" THEN error_thread_clear(o)
    ELSE IF o.pc = "error_sleep"
    THEN Issue([o EXCEPT !.stage = "check_errors", !.pc = "check_global"],
               "get", GetText("TELESCOPE.STATUS.GLOBAL"))
    ELSE error_thread_top(o, logged)

\* the task goes on after the call f it awaited has returned, at time t
error_thread_continue(o, f, t) ==
    IF o.stage = "clear_errors"
    THEN LET s == clear_errors_continue(o, f, t)
         IN  IF s.op.pc # "done" THEN s
             ELSE IF s.op.result # <<"True">>
             THEN Stay([s.op EXCEPT !.stage = "idle", !.pc = "error_sleep",
                                    !.has_error = TRUE])
             ELSE Stay([s.op EXCEPT !.stage = "idle", !.pc = "loop_sleep",
                                    !.has_error = FALSE])
    ELSE IF f.result = None THEN raised(o, "TypeError")
    ELSE IF ~PyIntOk(f.result) THEN raised(o, "ValueError")
    ELSE Stay([o EXCEPT !.stage = "idle", !.pc = "loop_sleep",
                        !.has_error = severe(PyInt(f.result))])

\* a driver whose goto and track give up when a set of the preamble
\* returns False
continue_checking(o, f, aborted, t) ==
    IF f.pc = "raised" THEN raised(o, f.exc)
    ELSE IF o.name = "_error_thread_func" THEN error_thread_continue(o, f, t)
    ELSE IF o.pc = "preamble" /\ f.result = FALSE THEN finished(o, FALSE)
    ELSE IF o.pc = "preamble"
         THEN IF o.step < Len(preamble(o))
              THEN Issue([o EXCEPT !.step = @ + 1], "set", preamble(o)[o.step + 1])
              ELSE IF o.name = "focus" THEN focus_top(o, aborted)
              ELSE attempt_top(o, aborted)
    ELSE IF o.name = "focus" THEN focus_continue(o, f, aborted)
    ELSE IF o.name = "clear_errors" THEN clear_errors_continue(o, f, t)
    ELSE IF o.name = "reset_focus_offset" THEN reset_focus_offset_continue(o, f)
    ELSE IF o.name = "change_filter" THEN change_filter_read(o, f.result)
    ELSE IF o.name \in {"init", "park"} THEN ready_continue(o, f)
    ELSE IF o.name = "list_errors"
         THEN IF f.result = None THEN raised(o, "AttributeError")
              ELSE finished(o, list_errors(errors, f.result, t).list)
    ELSE IF o.pc = "poll" THEN wait_for_value_read(o, f.result)
    ELSE IF o.pc = "list_errors" THEN errors_listed(o, f.result, t)
    ELSE attempt_top([o EXCEPT !.attempt = @ + 1], aborted)

\* the operation goes on after the call f it awaited has returned
continue(o, f, aborted, t) ==
    IF f.pc = "raised" THEN raised(o, f.exc)
    ELSE IF o.name = "_error_thread_func" THEN error_thread_continue(o, f, t)
    ELSE IF o.pc = "preamble"
         THEN IF o.step < Len(preamble(o))
              THEN Issue([o EXCEPT !.step = @ + 1], "set", preamble(o)[o.step + 1])
              ELSE IF o.name = "focus" THEN focus_top(o, aborted)
              ELSE attempt_top(o, aborted)
    ELSE IF o.name = "focus" THEN focus_continue(o, f, aborted)
    ELSE IF o.name = "clear_errors" THEN clear_errors_continue(o, f, t)
    ELSE IF o.name = "reset_focus_offset" THEN reset_focus_offset_continue(o, f)
    ELSE IF o.name = "change_filter" THEN change_filter_read(o, f.result)
    ELSE IF o.name \in {"init", "park"} THEN ready_continue(o, f)
    ELSE IF o.name = "list_errors"
         THEN IF f.result = None THEN raised(o, "AttributeError")
              ELSE finished(o, list_errors(errors, f.result, t).list)
    ELSE IF o.pc = "poll" THEN wait_for_value_read(o, f.result)
    ELSE IF o.pc = "list_errors" THEN errors_listed(o, f.result, t)
    ELSE attempt_top([o EXCEPT !.attempt = @ + 1], aborted)

\* the operation goes on after its sleep
wake(o, aborted) ==
    IF o.name = "_error_thread_func" THEN error_thread_wake(o, logged_in)
    ELSE IF o.pc = "login_sleep" THEN open_wake(o, logged_in)
    ELSE IF o.pc = "focus_sleep" THEN focus_wake(o)
    ELSE IF o.pc \in {"ready_wait", "ready_sleep"} THEN ready_wake(o)
    ELSE IF o.pc = "retry_sleep"
    THEN Issue([o EXCEPT !.pc = "retry_set"], "set",
               SetText("POINTING.TRACK", PyStr(2)))
    ELSE wait_for_value_top(o, aborted)

\* the seconds a sleep takes, in half seconds
slept(o) ==
    IF o.pc \in {"backoff", "error_sleep", "loop_sleep"} THEN Seconds(5)
    ELSE IF o.pc = "login_sleep" THEN (IF o.tenths = 4 THEN 1 ELSE 0)
    ELSE IF o.pc = "focus_sleep" THEN o.args.sleep \div 500
    ELSE IF o.pc = "ready_wait" THEN o.args.wait \div 5
    ELSE IF o.pc \in {"settle", "ready_sleep"} THEN 1
    ELSE 2

Awaiting(o) ==
    o.pc \in {"preamble", "poll", "list_errors", "retry_set",
              "distance", "again_position", "again_track", "realpos",
              "currpos", "ready", "ready_set", "ready_poll", "global", "clear",
              "targetpos", "offset", "check_global"}

Sleeping(o) ==
    o.pc \in {"settle", "poll_sleep", "retry_sleep", "focus_sleep",
              "ready_wait", "ready_sleep", "login_sleep",
              "backoff", "error_sleep", "loop_sleep"}

\* a step s of the operation takes place, cs being the calls so far
Runs(s, cs) ==
    IF s.fn = "none"
    THEN /\ op' = s.op
         /\ calls' = cs
         /\ UNCHANGED <<buffer, logged_in, id, commands, cmds, transport, failed>>
    ELSE IF s.fn = "launch"
    THEN /\ op' = s.op
         /\ calls' = cs \o [k \in 1..Len(s.text) |-> Frame("cmd", "handle", <<>>)]
         /\ Becomes(execute(execute(Protocol, s.text[1]), s.text[2]))
    ELSE /\ op' = [s.op EXCEPT !.call = Len(cs) + 1]
         /\ calls' = Append(cs, Frame(s.fn, "waiting", <<>>))
         /\ Becomes(execute(Protocol, s.text))

\* PilarDriver.goto is called and runs up to its first await
goto(alt, az) ==
    /\ op.name = "none"
    /\ Runs(Issue([name |-> "goto", args |-> <<alt, az>>, pc |-> "preamble",
                   step |-> 1, call |-> 0, attempt |-> 0, success |-> FALSE,
                   polls |-> 0, result |-> FALSE, exc |-> "none"],
                  "set", goto_preamble(alt, az)[1]), calls)
    /\ UNCHANGED <<data, received, abort_event, errors, now>>

\* PilarDriver.track is called and runs up to its first await
track(ra, dec) ==
    /\ op.name = "none"
    /\ Runs(Issue([name |-> "track", args |-> <<ra, dec>>, pc |-> "preamble",
                   step |-> 1, call |-> 0, attempt |-> 0, success |-> FALSE,
                   polls |-> 0, result |-> FALSE, exc |-> "none"],
                  "set", track_preamble(ra, dec)[1]), calls)
    /\ UNCHANGED <<data, received, abort_event, errors, now>>

\* PilarDriver.focus is called with the arguments a and runs up to its
\* first await
focus(a) ==
    /\ op.name = "none"
    /\ Runs(Issue([name |-> "focus", args |-> a, pc |-> "preamble", step |-> 1,
                   call |-> 0, delta |-> delta_start, waited |-> 0,
                   attempts |-> 0, result |-> FALSE, exc |-> "none"],
                  "set", focus_preamble(a)[1]), calls)
    /\ UNCHANGED <<data, received, abort_event, errors, now>>

\* PilarDriver.change_filter is called and runs up to its await
change_filter(filter_name, force_forward) ==
    /\ op.name = "none"
    /\ Runs(Issue([name |-> "change_filter", args |-> <<filter_name, force_forward>>,
                   pc |-> "currpos", call |-> 0, cur_id |-> 0, created |-> <<>>,
                   result |-> FALSE, exc |-> "none"],
                  "get", GetText("POSITION.INSTRUMENTAL.FILTER[2].CURRPOS")), calls)
    /\ UNCHANGED <<data, received, abort_event, errors, now>>

\* PilarDriver.init is called with the arguments a and runs up to its
\* first await
init(a) ==
    /\ op.name = "none"
    /\ Runs(Issue([name |-> "init", args |-> a, pc |-> "ready", call |-> 0,
                   attempt |-> 0, waited |-> 0, result |-> FALSE, exc |-> "none"],
                  "get", GetText("TELESCOPE.READY_STATE")), calls)
    /\ UNCHANGED <<data, received, abort_event, errors, now>>

\* PilarDriver.park is called with the arguments a and runs up to its
\* first await
park(a) ==
    /\ op.name = "none"
    /\ Runs(Issue([name |-> "park", args |-> a, pc |-> "ready", call |-> 0,
                   attempt |-> 0, waited |-> 0, result |-> FALSE, exc |-> "none"],
                  "get", GetText("TELESCOPE.READY_STATE")), calls)
    /\ UNCHANGED <<data, received, abort_event, errors, now>>

\* PilarDriver.clear_errors is called and runs up to its first await
clear_errors ==
    /\ op.name = "none"
    /\ Runs(Issue([name |-> "clear_errors", args |-> <<>>, pc |-> "global",
                   call |-> 0, level |-> 0, result |-> None, exc |-> "none"],
                  "get", GetText("TELESCOPE.STATUS.GLOBAL")), calls)
    /\ UNCHANGED <<data, received, abort_event, errors, now>>

\* PilarDriver.reset_focus_offset is called and runs up to its first await
reset_focus_offset ==
    /\ op.name = "none"
    /\ Runs(Issue([name |-> "reset_focus_offset", args |-> <<>>, pc |-> "targetpos",
                   call |-> 0, focus |-> 0, offset |-> 0, result |-> None,
                   exc |-> "none"],
                  "get", GetText("POSITION.INSTRUMENTAL.FOCUS.TARGETPOS")), calls)
    /\ UNCHANGED <<data, received, abort_event, errors, now>>

\* PilarDriver.open is called and runs up to "await loop.create_connection"
open ==
    /\ op.name = "none"
    /\ Runs(Stay([name |-> "open", args |-> <<>>, pc |-> "connecting", call |-> 0,
                  tenths |-> 0, result |-> None, exc |-> "none"]), calls)
    /\ UNCHANGED <<data, received, abort_event, errors, now>>

\* create_connection returns: the protocol is made and connected, and open
\* comes to its loop
connection_made ==
    /\ op.name = "open"
    /\ op.pc = "connecting"
    /\ Runs(open_while(op, logged_in), calls)
    /\ UNCHANGED <<data, received, abort_event, errors, now>>

\* create_connection raises: no server at the address
connection_refused ==
    /\ op.name = "open"
    /\ op.pc = "connecting"
    /\ Runs(raised(op, "OSError"), calls)
    /\ UNCHANGED <<data, received, abort_event, errors, now>>

\* the background task starts, the protocol being there (pr) or not yet
error_thread_func(pr) ==
    /\ op.name = "none"
    /\ Runs(error_thread_top([name |-> "_error_thread_func", args |-> <<>>,
                              stage |-> "idle", pc |-> "start", protocol |-> pr,
                              level |-> 0, has_error |-> FALSE, rounds |-> 0,
                              call |-> 0, result |-> None, exc |-> "none"],
                             logged_in), calls)
    /\ UNCHANGED <<data, received, abort_event, errors, now>>

\* how many times list_errors is called in one run
MaxListings == 3

\* PilarDriver.list_errors is called, no other operation running, and runs
\* up to its await
list_errors_call ==
    /\ op.name = "none" \/ (op.name = "list_errors" /\ op.pc \in {"done", "raised"})
    /\ Len(cmds) < MaxListings
    /\ Runs(Issue([name |-> "list_errors", args |-> <<>>, pc |-> "list_errors",
                   call |-> 0, result |-> <<>>, exc |-> "none"],
                  "get", GetText("TELESCOPE.STATUS.LIST")), calls)
    /\ UNCHANGED <<data, received, abort_event, errors, now>>

\* the command the operation awaits has finished: the event loop runs the
\* operation up to its next await
op_resume ==
    /\ op.name # "none"
    /\ Awaiting(op)
    /\ wait(cmds[op.call], FALSE, abort_event) = "done"
    /\ LET f == after_wait(calls[op.call], cmds[op.call], "done")
       IN  /\ Runs(continue(op, f, abort_event, now), [calls EXCEPT ![op.call] = f])
           /\ errors' = noted(op, f, now)
    /\ UNCHANGED <<data, received, abort_event, now>>

\* the timeout of the wait the operation is in runs out
op_timeout ==
    /\ op.name # "none"
    /\ Awaiting(op)
    /\ wait(cmds[op.call], TRUE, abort_event) = "TimeoutError"
    /\ LET f == after_wait([calls[op.call] EXCEPT !.elapsed = TRUE],
                           cmds[op.call], "TimeoutError")
       IN  /\ Runs(continue(op, f, abort_event, now), [calls EXCEPT ![op.call] = f])
           /\ errors' = noted(op, f, now)
    /\ UNCHANGED <<data, received, abort_event, now>>

\* the sleep the operation is in is over
op_wake ==
    /\ op.name # "none"
    /\ Sleeping(op)
    /\ Runs(wake(op, abort_event), calls)
    /\ now' = now + slept(op)
    /\ UNCHANGED <<data, received, abort_event, errors>>

(***************************************************************************)
(* The server of the composite operations: it answers an open command in   *)
(* full, with the lines of one answer in one delivery.                     *)
(***************************************************************************)
IsGet(c) == c.command[1] = "G"

\* the variable a GET asks for
Asked(c) == c.command[5]

\* what TELESCOPE.MOTION_STATE reads
MotionStates == {<<"0">>, <<"1">>, <<"1", "1">>}

Quoted(text) == <<"\"">> \o text \o <<"\"">>

\* what TELESCOPE.STATUS.LIST reads: no group, or the group of an error
StatusLists ==
    {Quoted(<<>>),
     Quoted(<<"TELESCOPE", "|", "2", ":", "AZ", "|", "2", ":",
              "ERR_Azimuth_ETELError", "|", "d", "|", "2", "|", "AZ">>)}

Readings(c) ==
    IF Asked(c) = "TELESCOPE.STATUS.LIST" THEN StatusLists ELSE MotionStates

\* acknowledgement, the value of a GET, terminal line
Completed(c, value) ==
    Reply(c.id, COMMAND_OK) \o <<NL>>
    \o (IF IsGet(c) THEN Reply(c.id, DataBody(<<Asked(c)>>, value)) \o <<NL>> ELSE <<>>)
    \o Reply(c.id, COMMAND_COMPLETE) \o <<NL>>

\* the command is refused
Refused(c) ==
    Reply(c.id, COMMAND_ERROR \o <<" ", "x">>) \o <<NL>>
    \o Reply(c.id, COMMAND_FAILED) \o <<NL>>

Answers(c) ==
    (IF IsGet(c) THEN {Completed(c, v) : v \in Readings(c)}
                 ELSE {Completed(c, <<>>)})
    \cup (IF Cardinality({r \in 1..Len(cmds) : cmds[r].error # None}) < MaxErrors
          THEN {Refused(c)} ELSE {})

\* the server answers an open command
serve ==
    \E i \in 1..Len(commands) :
        \E bytes \in Answers(cmds[commands[i]]) : receive(bytes)

\* the polls of one operation the model follows
WithinPolls ==
    (op.pc \in {"settle", "poll_sleep"} /\ ~abort_event) => op.polls < MaxPolls

\* str(alt), str(az)
Alt == <<"4", "5", ".", "0">>

Az == <<"9", "0", ".", "0">>

\* ra in degrees, str(dec)
Ra == 30

Dec == <<"1", "0", ".", "0">>

NextGoto ==
    \/ goto(Alt, Az)
    \/ track(Ra, Dec)
    \/ op_resume
    \/ op_timeout
    \/ WithinPolls /\ op_wake
    \/ set_abort
    \/ serve

SpecGoto == Init /\ [][NextGoto]_vars

(***************************************************************************)
(* Properties of goto and track.                                           *)
(***************************************************************************)
\* the move (or the tracking) was started: its last preamble set is written
Started(o) == o.pc # "preamble" \/ o.step = Len(preamble(o))

\* C9: once the abort event is set and goto (or track) has started the
\* motion but has not polled the motion state yet, it writes nothing any
\* more, and what it returns is False.
C9_AsStated ==
    [][(op.name \in {"goto", "track"} /\ Started(op) /\ abort_event /\ op.polls = 0)
          => /\ transport' = transport
             /\ op'.pc = "done" => op'.result = FALSE]_vars

\* C10: a goto that is not cancelled and whose exchanges all complete
\* leaves an attempt after a bounded number of polls that read a moving
\* telescope: it is not found waiting for one more poll of its first
\* attempt after MaxPolls of them.
C10_AsStated ==
    (op.name = "goto" /\ ~abort_event /\ op.pc = "poll_sleep" /\ op.attempt = 0)
        => op.polls < MaxPolls

\* what the code does instead: goto gives up (returns False) only once the
\* abort event is set, and retries only then
GotoFailsOnlyAborted ==
    op.name = "goto" =>
        /\ (op.pc = "done" /\ op.result = FALSE) => abort_event
        /\ op.attempt > 0 => abort_event

\* C9's case: the abort event was set before any poll, and the operation
\* returned False only after it had written one more command than its
\* preamble.
C9_Witness ==
    /\ op.name \in {"goto", "track"}
    /\ op.pc = "done"
    /\ op.result = FALSE
    /\ op.polls = 0
    /\ abort_event
    /\ Len(transport) > Len(preamble(op))

\* C10's case: every command of goto so far has completed without an
\* error, MaxPolls polls have read a moving telescope, nobody has set the
\* abort event, and goto is still in its first attempt, about to poll again.
C10_Witness ==
    /\ op.name = "goto"
    /\ ~abort_event
    /\ op.pc = "poll_sleep"
    /\ op.attempt = 0
    /\ op.polls = MaxPolls
    /\ \A r \in 1..Len(cmds) : cmds[r].completed /\ cmds[r].error = None
    /\ \A r \in 1..Len(calls) : calls[r].pc = "returned"

\* C11: once goto has started the move and finds the abort event set when
\* it looks at it (on waking from a sleep), it returns False in that very
\* step and writes nothing: the move command is not written again.
C11_AsStated ==
    [][(op.name = "goto" /\ Started(op) /\ abort_event /\ Sleeping(op) /\ op' # op)
          => /\ op'.pc = "done"
             /\ op'.result = FALSE
             /\ transport' = transport]_vars

\* the move command of goto as it is written with id n
MoveCommand(n) == PyStr(n) \o <<" ">> \o SetText("POINTING.TRACK", PyStr(2)) \o <<NL>>

\* C11's case: goto polled a moving telescope, then found the abort event
\* set, and returned False only after it had written the move command a
\* second time.
C11_Witness ==
    /\ op.name = "goto"
    /\ op.pc = "done"
    /\ op.result = FALSE
    /\ op.polls > 0
    /\ abort_event
    /\ Cardinality({i \in 1..Len(transport) : transport[i] = MoveCommand(i)}) = 2

(***************************************************************************)
(* track against a server that answers every command with COMMAND OK and   *)
(* COMMAND COMPLETE.  The motion state reads 0, 11, or (MaxPolls times at  *)
(* most in one run) a value that leaves the attempt undecided.             *)
(***************************************************************************)
IsPoll(c) == IsGet(c) /\ Asked(c) = "TELESCOPE.MOTION_STATE"

\* the polls answered so far that left an attempt undecided
Undecided ==
    Cardinality({r \in 1..Len(cmds) :
                    /\ IsPoll(cmds[r])
                    /\ cmds[r].completed
                    /\ cmds[r].data \notin {<<"0">>, <<"1", "1">>}})

TrackReadings(c) ==
    IF IsPoll(c)
    THEN {<<"0">>, <<"1", "1">>} \cup (IF Undecided < MaxPolls THEN {<<"1">>} ELSE {})
    ELSE Readings(c)

\* the server completes an open command
complete ==
    \E i \in 1..Len(commands) :
        LET c == cmds[commands[i]]
        IN  \E v \in (IF IsGet(c) THEN TrackReadings(c) ELSE {<<>>}) :
                receive(Completed(c, v))

NextTrack ==
    \/ track(Ra, Dec)
    \/ op_resume
    \/ op_timeout
    \/ op_wake
    \/ set_abort
    \/ complete

SpecTrack == Init /\ [][NextTrack]_vars

\* the call the operation awaits returns in this step with the text read
Reads(text) ==
    /\ Awaiting(op)
    /\ calls'[op.call].pc = "returned"
    /\ cmds[op.call].data = text

Distances == {<<"0">>, <<"5">>, <<"-", "5">>}

\* the arguments focus is called with
FocusArgs ==
    {[position |-> <<"1", ".", "5">>, timeout |-> 500, accuracy |-> 1,
      sleep |-> 500, retry |-> n, sync |-> flags] :
        n \in {0, 1},
        flags \in {<<FALSE, FALSE, FALSE, FALSE>>, <<TRUE, FALSE, TRUE, FALSE>>}}

IsDistance(c) ==
    IsGet(c) /\ Asked(c) = "POSITION.INSTRUMENTAL.FOCUS.TARGETDISTANCE"

\* the server completes an open command of focus
focus_complete ==
    \E i \in 1..Len(commands) :
        LET c == cmds[commands[i]]
        IN  \E v \in (IF IsDistance(c) THEN Distances
                      ELSE IF IsGet(c) THEN {<<"2">>} ELSE {<<>>}) :
                receive(Completed(c, v))

NextFocus ==
    \/ \E a \in FocusArgs : focus(a)
    \/ op_resume
    \/ op_timeout
    \/ op_wake
    \/ set_abort
    \/ focus_complete

SpecFocus == Init /\ [][NextFocus]_vars

\* a delivery to data_received while a command is open: in SpecFocus these
\* are the steps of focus_complete, which can take place whenever a command
\* is open
answered == commands # <<>> /\ received' = received + 1

\* focus is called; the event loop runs a coroutine that can run; a sleep
\* ends; the server answers an open command
SpecFocusFair ==
    /\ SpecFocus
    /\ WF_vars(\E a \in FocusArgs : focus(a))
    /\ WF_vars(op_resume)
    /\ WF_vars(op_wake)
    /\ WF_received(answered)

(***************************************************************************)
(* Properties of focus.                                                    *)
(***************************************************************************)
\* how many of the commands written so far set variable key
Written(key) ==
    Cardinality({i \in 1..Len(transport) :
                    Contains(transport[i], <<"S", "E", "T", " ", key, "=">>)})

\* the text written last is the set of key to value
WritesSet(key, value) ==
    /\ Len(transport') = Len(transport) + 1
    /\ transport'[Len(transport')] = PyStr(id') \o <<" ">> \o SetText(key, value) \o <<NL>>

\* C13: focus ends, whatever the target distance reads.  It has started at
\* most retry new attempts, one per re-issued target position; a poll that
\* finds waited > timeout starts one new attempt (attempts + 1, waited = 0,
\* the target position and then POINTING.TRACK=4 written once) while
\* attempts < retry, and returns False with nothing written otherwise; a
\* poll that finds waited <= timeout starts none.
C13_FocusTerminates ==
    /\ [](op.name = "focus" =>
            /\ op.attempts <= op.args.retry
            /\ Written("POINTING.SETUP.FOCUS.POSITION") <= 1 + op.attempts
            /\ op.pc \in {"done", "focus_sleep", "distance", "realpos"} =>
                  /\ Written("POINTING.SETUP.FOCUS.POSITION") = 1 + op.attempts
                  /\ Written("POINTING.TRACK") = 1 + op.attempts)
    /\ [][op.name = "focus" =>
            /\ (op.pc = "distance" /\ \E text \in Distances : Reads(text)) =>
                  IF op.waited > op.args.timeout
                  THEN IF op.attempts < op.args.retry
                       THEN /\ op'.attempts = op.attempts + 1
                            /\ op'.waited = 0
                            /\ op'.pc = "again_position"
                            /\ WritesSet("POINTING.SETUP.FOCUS.POSITION", op.args.position)
                       ELSE /\ op'.pc = "done"
                            /\ op'.result = FALSE
                            /\ transport' = transport
                  ELSE /\ op'.attempts = op.attempts
                       /\ op'.waited = op.waited
                       /\ Written("POINTING.SETUP.FOCUS.POSITION")' =
                              Written("POINTING.SETUP.FOCUS.POSITION")
            /\ (op.pc = "again_position" /\ Reads(None)) =>
                  /\ op'.pc = "again_track"
                  /\ op'.attempts = op.attempts
                  /\ WritesSet("POINTING.TRACK", PyStr(4))
            /\ (op.pc = "again_track" /\ Reads(None)) =>
                  /\ op'.attempts = op.attempts
                  /\ Written("POINTING.SETUP.FOCUS.POSITION")' =
                         Written("POINTING.SETUP.FOCUS.POSITION")]_vars
    /\ (op.name = "focus") ~> (op.name = "focus" /\ op.pc \in {"done", "raised"})

\* C13's case: no poll read a distance below accuracy, nobody set the abort
\* event, focus used its one extra attempt and returned False.
C13_Witness ==
    /\ op.name = "focus"
    /\ ~abort_event
    /\ op.pc = "done"
    /\ op.result = FALSE
    /\ op.args.retry = 1
    /\ op.attempts = 1
    /\ op.delta >= op.args.accuracy
    /\ Written("POINTING.SETUP.FOCUS.POSITION") = 2

\* C14: a focus that was not cancelled returns True exactly when its last
\* poll read a distance below accuracy, and after a poll that read one it
\* goes on to return True: it neither returns False nor writes the target
\* position again.
C14_AsStated ==
    /\ [](( op.name = "focus" /\ op.pc = "done" /\ ~abort_event) =>
             (op.result <=> op.delta < op.args.accuracy))
    /\ [][(/\ op.name = "focus"
           /\ op.pc = "distance"
           /\ \E text \in Distances :
                 Reads(text) /\ Abs(PyFloat(text)) < op.args.accuracy)
              => op'.pc = "realpos"]_vars

\* C14's case: nobody set the abort event, the last poll read a distance
\* below accuracy, and focus returned False.
C14_Witness ==
    /\ op.name = "focus"
    /\ ~abort_event
    /\ op.pc = "done"
    /\ op.result = FALSE
    /\ op.delta < op.args.accuracy

(***************************************************************************)
(* change_filter against a server that completes the get of the current   *)
(* position with one of the six positions of the wheel.                    *)
(***************************************************************************)
\* what POSITION.INSTRUMENTAL.FILTER[2].CURRPOS reads
Positions == {PyStr(n) : n \in 0..(Len(filters) - 1)}

\* the names change_filter is called with: the filters, and no filter
FilterNames == {filters[i] : i \in 1..Len(filters)} \cup {"none"}

\* the server completes an open command of change_filter
filter_complete ==
    \E i \in 1..Len(commands) :
        LET c == cmds[commands[i]]
        IN  \E v \in (IF IsGet(c) THEN Positions ELSE {<<>>}) :
                receive(Completed(c, v))

NextFilter ==
    \/ \E filter_name \in FilterNames, force_forward \in BOOLEAN :
          change_filter(filter_name, force_forward)
    \/ op_resume
    \/ op_timeout
    \/ set_abort
    \/ filter_complete

SpecFilter == Init /\ [][NextFilter]_vars

(***************************************************************************)
(* Properties of change_filter.                                            *)
(***************************************************************************)
\* the commands written so far that set variable key, in order
SetsOf(key) ==
    SelectSeq(transport, LAMBDA text : Contains(text, <<"S", "E", "T", " ", key, "=">>))

\* the positions from cur_id (not included) to filter_id, one at a time in
\* the increasing direction, wrapping at the end of the wheel
RECURSIVE OneByOne(_, _)
OneByOne(cur_id, filter_id) ==
    IF cur_id = filter_id THEN <<>>
    ELSE LET next == (cur_id + 1) % Len(filters)
         IN  <<next>> \o OneByOne(next, filter_id)

\* change_filter has returned True for a filter other than the one its get
\* read
Changed ==
    /\ op.name = "change_filter"
    /\ op.pc = "done"
    /\ op.result
    /\ PyFloat(cmds[op.call].data) # index(filters, op.args[1])

\* C15: a change_filter with force_forward that returned True has written
\* the filter indices from the position it read to the target, one position
\* at a time in the increasing direction, wrapping at the end of the wheel,
\* and no other index.
C15_AsStated ==
    (Changed /\ op.args[2]) =>
        LET path == OneByOne(PyFloat(cmds[op.call].data), index(filters, op.args[1]))
            written == SetsOf("POINTING.SETUP.FILTER.INDEX")
        IN  /\ Len(written) = Len(path)
            /\ \A k \in 1..Len(path) :
                  Contains(written[k],
                           SetText("POINTING.SETUP.FILTER.INDEX", PyStr(path[k])))

\* C15's case: from position 4 to the filter at index 1 of the six, with
\* force_forward: change_filter returned True, the one coroutine it
\* created is for index 1, and no index was written.
C15_Witness ==
    /\ Changed
    /\ op.args = <<filters[2], TRUE>>
    /\ cmds[op.call].data = PyStr(4)
    /\ op.created = <<1>>
    /\ SetsOf("POINTING.SETUP.FILTER.INDEX") = <<>>

\* C16: a change_filter that returned True for a filter other than the one
\* selected has written the index and POINTING.TRACK=3 and has then read
\* the target index back; without force_forward it wrote one index, the
\* target.
C16_AsStated ==
    Changed =>
        /\ SetsOf("POINTING.SETUP.FILTER.INDEX") # <<>>
        /\ Len(SetsOf("POINTING.TRACK")) = Len(SetsOf("POINTING.SETUP.FILTER.INDEX"))
        /\ \E r \in 1..Len(cmds) :
              /\ IsGet(cmds[r])
              /\ cmds[r].completed
              /\ PyFloat(cmds[r].data) = index(filters, op.args[1])
        /\ ~op.args[2] =>
              /\ Len(SetsOf("POINTING.SETUP.FILTER.INDEX")) = 1
              /\ Contains(SetsOf("POINTING.SETUP.FILTER.INDEX")[1],
                          SetText("POINTING.SETUP.FILTER.INDEX",
                                  PyStr(index(filters, op.args[1]))))

\* C16's case: without force_forward, change_filter returned True for a
\* filter other than the one selected after its one get, with nothing set
\* and nothing read back.
C16_Witness ==
    /\ Changed
    /\ ~op.args[2]
    /\ Len(transport) = 1
    /\ Len(cmds) = 1

(***************************************************************************)
(* init and park against a server that completes every command; the ready  *)
(* state reads 0 or 1.  Times are in tenths of a second.                   *)
(***************************************************************************)
\* what TELESCOPE.READY_STATE reads
ReadyStates == {<<"0">>, <<"1">>}

\* the arguments init and park are called with
ReadyArgs ==
    {[attempts |-> n, wait |-> 5, attempt_timeout |-> t] :
        n \in {0, 1, 2}, t \in {0, 5, 7, 10}}

\* how many gets of the ready state the server answers to one park
MaxReadyPolls == 4

IsReady(c) == IsGet(c) /\ Asked(c) = "TELESCOPE.READY_STATE"

\* the gets of the ready state answered so far
ReadyAnswered ==
    Cardinality({r \in 1..Len(cmds) : IsReady(cmds[r]) /\ cmds[r].completed})

\* the server completes an open command of init or park
ready_complete ==
    /\ op.name = "park" => ReadyAnswered < MaxReadyPolls
    /\ \E i \in 1..Len(commands) :
          LET c == cmds[commands[i]]
          IN  \E v \in (IF IsGet(c) THEN ReadyStates ELSE {<<>>}) :
                  receive(Completed(c, v))

NextReady ==
    \/ \E a \in ReadyArgs : init(a)
    \/ \E a \in ReadyArgs : park(a)
    \/ op_resume
    \/ op_timeout
    \/ op_wake
    \/ ready_complete

SpecReady == Init /\ [][NextReady]_vars

(***************************************************************************)
(* Properties of init and park.                                            *)
(***************************************************************************)
\* the gets of the ready state written after the first one
Polls == Cardinality({r \in 1..Len(cmds) : IsReady(cmds[r])}) - 1

\* ceil(attempt_timeout / 0.5)
PollsAllowed(o) == (o.args.attempt_timeout + 4) \div 5

\* C17: when the get that opens init reads 1, or the one that opens park
\* reads 0, the operation returns True in that step and writes nothing; an
\* operation whose first get read its target has written that one command.
C17_AlreadyReady ==
    /\ []((/\ op.name \in {"init", "park"}
           /\ cmds[1].completed
           /\ cmds[1].data = PyStr(ready_target(op)))
             => /\ Len(transport) = 1
                /\ op.pc \in {"ready", "done", "raised"}
                /\ op.pc = "done" => op.result)
    /\ [][(/\ op.name \in {"init", "park"}
           /\ op.pc = "ready"
           /\ Reads(PyStr(ready_target(op))))
             => /\ op'.pc = "done"
                /\ op'.result = TRUE
                /\ transport' = transport
                /\ Len(calls') = Len(calls)]_vars

\* C17's case: the first get of init read 1 and init returned True with
\* that one command written.
C17_Witness ==
    /\ op.name = "init"
    /\ op.args.attempts > 0
    /\ op.pc = "done"
    /\ op.result
    /\ cmds[1].data = <<"1">>
    /\ Len(transport) = 1

\* C18: init writes at most attempts SET TELESCOPE.READY="1" and at most
\* ceil(attempt_timeout / 0.5) polls after each; after a set it sleeps wait
\* and then polls, after a poll that read 0 it counts half a second and
\* sleeps half a second; a get that reads 1 ends it with True; when it
\* returns False it has written attempts sets and attempts times
\* ceil(attempt_timeout / 0.5) polls, none of which read 1.
C18_InitAttempts ==
    /\ [](op.name = "init" =>
            /\ Written("TELESCOPE.READY") <= op.args.attempts
            /\ \A i \in 1..Len(SetsOf("TELESCOPE.READY")) :
                  Contains(SetsOf("TELESCOPE.READY")[i],
                           SetText("TELESCOPE.READY", PyStr(1)))
            /\ op.waited <= 5 * PollsAllowed(op)
            /\ Polls <= Written("TELESCOPE.READY") * PollsAllowed(op)
            /\ (op.pc = "done" /\ op.result) => cmds[op.call].data = <<"1">>
            /\ (op.pc = "done" /\ ~op.result) =>
                  /\ Written("TELESCOPE.READY") = op.args.attempts
                  /\ Polls = op.args.attempts * PollsAllowed(op)
                  /\ \A r \in 1..Len(cmds) : cmds[r].data # <<"1">>)
    /\ [][op.name = "init" =>
            /\ (op.pc \in {"ready", "ready_poll"} /\ Reads(<<"1">>)) =>
                  op'.pc = "done" /\ op'.result = TRUE /\ transport' = transport
            /\ (op.pc = "ready_set" /\ Reads(None)) =>
                  op'.pc = "ready_wait" /\ transport' = transport
            /\ (op.pc = "ready_wait" /\ op' # op) =>
                  /\ now' = now + op.args.wait \div 5
                  /\ op.args.attempt_timeout > 0 =>
                        /\ op'.pc = "ready_poll"
                        /\ op'.waited = 0
                        /\ Len(transport') = Len(transport) + 1
            /\ (op.pc = "ready_poll" /\ Reads(<<"0">>)) =>
                  /\ op'.pc = "ready_sleep"
                  /\ op'.waited = op.waited + 5
                  /\ transport' = transport
            /\ (op.pc = "ready_sleep" /\ op' # op) => now' = now + 1]_vars

\* C18's case: no get read 1, init made its two attempts of two polls each
\* and returned False.
C18_Witness ==
    /\ op.name = "init"
    /\ op.pc = "done"
    /\ op.result = FALSE
    /\ op.args.attempts = 2
    /\ op.args.attempt_timeout = 7
    /\ Written("TELESCOPE.READY") = 2
    /\ Polls = 4

\* C19: park writes at most attempts SET TELESCOPE.READY="0" and, after
\* each, at most ceil(attempt_timeout / 0.5) polls of the ready state.
C19_AsStated ==
    op.name = "park" =>
        /\ Written("TELESCOPE.READY") <= op.args.attempts
        /\ Polls <= Written("TELESCOPE.READY") * PollsAllowed(op)

\* C19's case: no get read 0, and park, in its first attempt with an
\* attempt_timeout of half a second, has written a third poll; waited is
\* still 0.
C19_Witness ==
    /\ op.name = "park"
    /\ op.args.attempts = 1
    /\ op.args.attempt_timeout = 5
    /\ op.attempt = 0
    /\ op.waited = 0
    /\ Written("TELESCOPE.READY") = 1
    /\ Polls = 3
    /\ \A r \in 1..Len(cmds) : cmds[r].data # <<"0">>

(***************************************************************************)
(* list_errors against a server that completes its get with one of a few   *)
(* status lists.                                                           *)
(***************************************************************************)
\* A|1:comp|2;err1|d1|1|comp,B|0
StatusExample ==
    <<"A", "|", "1", ":", "comp", "|", "2", ";",
      "err1", "|", "d1", "|", "1", "|", "comp", ",", "B", "|", "0">>

\* a group with its component and an error of the table; the same with an
\* error that is ignored
StatusKnown ==
    <<"TELESCOPE", "|", "2", ":", "AZ", "|", "2", ":",
      "ERR_Azimuth_ETELError", "|", "d", "|", "2", "|", "AZ">>

StatusIgnored ==
    <<"TELESCOPE", "|", "2", ":", "GPS", "|", "2", ":",
      "ERR_GPS_LeapSecond", "|", "d", "|", "2", "|", "GPS">>

\* what TELESCOPE.STATUS.LIST reads, in the quotes the server sends
ErrorLists ==
    {Quoted(<<>>), Quoted(StatusExample), Quoted(StatusKnown),
     Quoted(StatusKnown \o <<",">> \o StatusIgnored)}

\* the server completes the open get of list_errors
errors_complete ==
    \E i \in 1..Len(commands) :
        \E v \in ErrorLists : receive(Completed(cmds[commands[i]], v))

NextErrors ==
    \/ list_errors_call
    \/ op_resume
    \/ op_timeout
    \/ errors_complete

SpecErrors == Init /\ [][NextErrors]_vars

(***************************************************************************)
(* Properties of list_errors.                                              *)
(***************************************************************************)
\* list_errors has returned, its get having read text
Listed(text) ==
    /\ op.name = "list_errors"
    /\ op.pc = "done"
    /\ cmds[op.call].data = text

\* C20: list_errors on A|1:comp|2;err1|d1|1|comp,B|0 returns a list of one
\* entry, the error err1.
C20_AsStated ==
    Listed(StatusExample) => (Len(op.result) = 1 /\ op.result[1] = <<"err1">>)

\* C20's case: list_errors on that status list has returned three entries,
\* for the names comp, err1 and B, each of them None.
C20_Witness ==
    /\ Listed(StatusExample)
    /\ status_names(SplitOn(StatusExample, ","), 1) = << <<"comp">>, <<"err1">>, <<"B">> >>
    /\ op.result = <<None, None, None>>

(***************************************************************************)
(* One instance of PilarError: it is made, occur() is called at times one  *)
(* second or a long time apart, fatal() is called at any time.  op is the  *)
(* instance: behaviour is self._behaviour and dates is self._dates; before *)
(* is self._dates as the last call found it, result what the last call of  *)
(* fatal() returned, occurred the number of calls of occur().              *)
(***************************************************************************)
\* how many times occur() is called on one instance
MaxDates == 11

\* the behaviours of the table, and the one an entry without arguments has
Behaviours ==
    {ERRORS[i][2] : i \in 1..Len(ERRORS)} \cup {ErrorBehaviour(FALSE, 300, 5, 86400)}

\* the time from one call of occur() to the next: a second, or a time that
\* is above reset_timeout and, for a behaviour without one, not within
\* accum_span
Gaps(b) ==
    {Seconds(1),
     IF b.reset_timeout > 0 THEN Seconds(b.reset_timeout + 1) ELSE Seconds(b.accum_span)}

\* PilarError.__init__
new_error(b) ==
    /\ op.name = "none"
    /\ op' = [name |-> "PilarError", pc |-> "made", behaviour |-> b, dates |-> <<>>,
              before |-> <<>>, result |-> FALSE, occurred |-> 0]
    /\ UNCHANGED <<buffer, logged_in, id, commands, cmds, transport, data, received,
                   failed, calls, abort_event, errors, now>>

\* PilarError.occur is called, some time after the call before
error_occurs ==
    /\ op.name = "PilarError"
    /\ op.occurred < MaxDates
    /\ \E gap \in Gaps(op.behaviour) : now' = now + gap
    /\ op' = [op EXCEPT !.pc = "occurred",
                        !.before = op.dates,
                        !.dates = IF op.behaviour.ignore THEN @ ELSE Append(@, now'),
                        !.occurred = @ + 1]
    /\ UNCHANGED <<buffer, logged_in, id, commands, cmds, transport, data, received,
                   failed, calls, abort_event, errors>>

\* PilarError.fatal is called
fatal_called ==
    /\ op.name = "PilarError"
    /\ LET f == fatal_of(op.dates, op.behaviour)
       IN  op' = [op EXCEPT !.pc = "fatal", !.before = op.dates,
                            !.dates = f.dates, !.result = f.fatal]
    /\ UNCHANGED <<buffer, logged_in, id, commands, cmds, transport, data, received,
                   failed, calls, abort_event, errors, now>>

NextFatal ==
    \/ \E b \in Behaviours : new_error(b)
    \/ error_occurs
    \/ fatal_called

SpecFatal == Init /\ [][NextFatal]_vars

(***************************************************************************)
(* Properties of PilarError.fatal.                                         *)
(***************************************************************************)
\* the entries of dates less than span seconds before the last one
Trailing(dates, span) ==
    SelectSeq(dates, LAMBDA d : dates[Len(dates)] - d < Seconds(span))

\* the last two of dates are less than s seconds apart
LastTwoWithin(dates, s) ==
    Len(dates) >= 2 /\ dates[Len(dates)] - dates[Len(dates) - 1] < Seconds(s)

\* every two neighbours of dates are more than s seconds apart
Spaced(dates, s) ==
    \A i \in 1..(Len(dates) - 1) : dates[i + 1] - dates[i] > Seconds(s)

\* fatal() has just returned
FatalReturned == op.name = "PilarError" /\ op.pc = "fatal"

\* C22: fatal() returns True exactly when there are more than reset_max
\* dates, or the last two are less than reset_timeout apart, or more than
\* accum_max lie within accum_span of the last; the dates are then as
\* before; when it returns False, the dates are those within accum_span of
\* the last.
C22_FatalRules ==
    FatalReturned =>
        LET b == op.behaviour
            rule1 == Len(op.before) > b.reset_max
            rule2 == LastTwoWithin(op.before, b.reset_timeout)
            rule3 == Len(Trailing(op.before, b.accum_span)) > b.accum_max
        IN  /\ op.result <=> (rule1 \/ rule2 \/ rule3)
            /\ op.result => op.dates = op.before
            /\ ~op.result => op.dates = Trailing(op.before, b.accum_span)

\* C22's case: fatal() has returned False and has dropped dates that were
\* not within accum_span of the last.
C22_Witness ==
    /\ FatalReturned
    /\ ~op.result
    /\ Len(op.before) >= 3
    /\ Len(op.dates) < Len(op.before)

\* C23 as stated: after a call of fatal(), every date is within accum_span
\* of the last.
C23_AsStated ==
    FatalReturned => Trailing(op.dates, op.behaviour.accum_span) = op.dates

\* C23: after a call of fatal() that returned False every date is within
\* accum_span of the last; a call that returned True has left the dates as
\* they were.
C23_TrimmedWhenNotFatal ==
    FatalReturned =>
        /\ ~op.result => Trailing(op.dates, op.behaviour.accum_span) = op.dates
        /\ op.result => op.dates = op.before

\* C23's case: fatal() has returned True and a date that is not within
\* accum_span of the last is still there.
C23_Witness ==
    /\ FatalReturned
    /\ op.result
    /\ Trailing(op.dates, op.behaviour.accum_span) # op.dates

\* the dates fatal() found were more than reset_timeout apart and all
\* within accum_span
SpacedWithin ==
    /\ FatalReturned
    /\ op.before # <<>>
    /\ Spaced(op.before, op.behaviour.reset_timeout)
    /\ Trailing(op.before, op.behaviour.accum_span) = op.before

\* C24 as stated: with dates more than reset_timeout apart and all within
\* accum_span, fatal() returns False for up to 10 dates and True for 11;
\* with the last two dates less than reset_timeout apart it returns True.
C24_AsStated ==
    /\ (SpacedWithin /\ Len(op.before) <= op.behaviour.reset_max) => ~op.result
    /\ (SpacedWithin /\ Len(op.before) = op.behaviour.reset_max + 1) => op.result
    /\ (FatalReturned /\ LastTwoWithin(op.before, op.behaviour.reset_timeout)) =>
          op.result

\* C24: with dates more than reset_timeout apart and all within accum_span,
\* fatal() returns False for up to accum_max = 5 dates and True for more;
\* with the last two dates less than reset_timeout apart it returns True.
C24_FatalAtSixth ==
    /\ op.name = "PilarError" =>
          op.behaviour.reset_max = 10 /\ op.behaviour.accum_max = 5
    /\ (SpacedWithin /\ Len(op.before) <= 5) => ~op.result
    /\ (SpacedWithin /\ Len(op.before) > 5) => op.result
    /\ (FatalReturned /\ LastTwoWithin(op.before, op.behaviour.reset_timeout)) =>
          op.result

\* C24's case: the sixth of six dates more than reset_timeout apart and all
\* within accum_span, and fatal() has returned True.
C24_Witness ==
    /\ SpacedWithin
    /\ Len(op.before) = 6
    /\ op.result

(***************************************************************************)
(* clear_errors against a server that completes every command.  It is      *)
(* called 20 s after the last of the errors that earlier calls of          *)
(* list_errors have left in PilarError._errors.                            *)
(***************************************************************************)
\* what TELESCOPE.STATUS.GLOBAL reads
Levels == {<<"0">>, <<"1">>, <<"2">>, <<"4">>}

\* an instance that has occurred n times, one second apart
Occurred(name, n) == [name |-> <<name>>, dates |-> [i \in 1..n |-> Seconds(i)]]

\* PilarError._errors when clear_errors is called
Registries ==
    {<<>>,
     <<Occurred("ERR_Azimuth_ETELError", 5)>>,
     <<Occurred("ERR_Elevation_ETELError", 5)>>,
     <<Occurred("ERR_Elevation_ETELError", 6)>>}

InitClear ==
    /\ buffer = <<>>
    /\ logged_in = FALSE
    /\ id = 0
    /\ commands = <<>>
    /\ cmds = <<>>
    /\ transport = <<>>
    /\ data = <<>>
    /\ received = 0
    /\ failed = "none"
    /\ calls = <<>>
    /\ abort_event = FALSE
    /\ op = NoOp
    /\ errors \in Registries
    /\ now = Seconds(26)

\* the server completes an open command of clear_errors
clear_complete ==
    \E i \in 1..Len(commands) :
        LET c == cmds[commands[i]]
        IN  \E v \in (IF ~IsGet(c) THEN {<<>>}
                      ELSE IF Asked(c) = "TELESCOPE.STATUS.LIST" THEN ErrorLists
                      ELSE Levels) :
                receive(Completed(c, v))

NextClear ==
    \/ clear_errors
    \/ op_resume
    \/ op_timeout
    \/ clear_complete

SpecClear == InitClear /\ [][NextClear]_vars

(***************************************************************************)
(* Properties of clear_errors.                                             *)
(***************************************************************************)
\* some instance of errs is fatal
AnyFatal(errs) ==
    \E i \in 1..Len(errs) : fatal_of(errs[i].dates, Behaviour(errs[i].name)).fatal

\* C21: when the global status read has neither bit 0 nor bit 1 set,
\* clear_errors returns True at once and writes nothing more; when it has,
\* clear_errors asks for the status list, and once that is read it writes
\* SET TELESCOPE.STATUS.CLEAR with the level read if no instance of
\* PilarError._errors is fatal, and returns False with nothing written if
\* one is.  The one CLEAR it ever writes is written in that case only.
C21_ClearWhenSevereNotFatal ==
    /\ [](op.name = "clear_errors" =>
            /\ Written("TELESCOPE.STATUS.CLEAR") <= 1
            /\ Written("TELESCOPE.STATUS.CLEAR") = 1 =>
                  /\ severe(PyInt(cmds[1].data))
                  /\ ~AnyFatal(errors)
                  /\ Contains(transport[Len(transport)],
                              SetText("TELESCOPE.STATUS.CLEAR", cmds[1].data))
            /\ (cmds[1].completed /\ ~severe(PyInt(cmds[1].data))) =>
                  Len(transport) = 1)
    /\ [][op.name = "clear_errors" =>
            /\ \A level \in Levels :
                  (op.pc = "global" /\ Reads(level)) =>
                      IF severe(PyInt(level))
                      THEN /\ op'.pc = "list_errors"
                           /\ Len(transport') = Len(transport) + 1
                           /\ Contains(transport'[Len(transport')],
                                       GetText("TELESCOPE.STATUS.LIST"))
                      ELSE /\ op'.pc = "done"
                           /\ op'.result = <<"True">>
                           /\ transport' = transport
            /\ \A text \in ErrorLists :
                  (op.pc = "list_errors" /\ Reads(PySlice(text, 1, -1))) =>
                      IF AnyFatal(errors')
                      THEN /\ op'.pc = "done"
                           /\ op'.result = <<"False">>
                           /\ transport' = transport
                      ELSE /\ op'.pc = "clear"
                           /\ WritesSet("TELESCOPE.STATUS.CLEAR", PyStr(op.level))]_vars

\* C21's case: the status is severe, the status list read names no error
\* of PilarError._errors, an instance recorded earlier is fatal, and
\* clear_errors has returned False without a CLEAR.
C21_Witness ==
    /\ op.name = "clear_errors"
    /\ op.pc = "done"
    /\ op.result = <<"False">>
    /\ severe(op.level)
    /\ cmds[op.call].data = <<>>
    /\ AnyFatal(errors)
    /\ Written("TELESCOPE.STATUS.CLEAR") = 0

(***************************************************************************)
(* Exceptions of the exchanges inside goto and track.                      *)
(***************************************************************************)
\* C25: goto and track never raise: whatever happens to the gets and sets
\* they await, they go on or return.
C25_AsStated == op.name \in {"goto", "track"} => op.pc # "raised"

\* C25's case: the wait of a command goto awaited timed out, with nobody
\* setting the abort event, and goto has raised the TimeoutError.
C25_Witness ==
    /\ op.name = "goto"
    /\ ~abort_event
    /\ op.pc = "raised"
    /\ op.exc = "TimeoutError"
    /\ calls[op.call].exc = "TimeoutError"

(***************************************************************************)
(* The lines of data_received: login lines, lines no command can claim,    *)
(* lines with more than one marker.  A delivery is one line or two; an     *)
(* exception of data_received ends the connection (the transport of        *)
(* asyncio closes it), so nothing is sent or delivered after one.          *)
(***************************************************************************)
\* how many commands are executed
MaxOpen == 2

\* how many deliveries the server makes
MaxChunks == 2

\* the login prompt, the login results, and a value that holds a result
AuthLines ==
    {AUTH_PLAIN, AUTH_OK, AUTH_FAILED, Reply(1, DataBody(<<"a">>, Quoted(AUTH_OK))),
     AUTH_PLAIN \o <<" ">> \o AUTH_OK, AUTH_OK \o <<" ">> \o AUTH_FAILED}

\* the empty line, and a line whose leading token is no integer
Malformed == {<<>>, <<"x">>}

MarkerBodies ==
    {COMMAND_OK, COMMAND_ERROR \o <<" ", "x">>, COMMAND_COMPLETE, COMMAND_FAILED,
     DataBody(<<"a">>, <<"1">>), DataBody(<<"a">>, Quoted(COMMAND_COMPLETE)),
     COMMAND_ERROR \o <<" ">> \o COMMAND_FAILED}

WireLines ==
    AuthLines \cup Malformed \cup {Reply(n, b) : n \in 1..MaxOpen, b \in MarkerBodies}

\* a line that is followed, in the same delivery, by a login result
Pairs == {ln \o <<NL>> \o AUTH_OK \o <<NL>> : ln \in Malformed}

Chunks == {ln \o <<NL>> : ln \in WireLines} \cup Pairs

NextLines ==
    \/ failed = "none" /\ id < MaxOpen /\ set("K", <<"1">>, FALSE)
    \/ /\ failed = "none"
       /\ received < MaxChunks
       /\ \E chunk \in Chunks : receive(chunk)

SpecLines == Init /\ [][NextLines]_vars

(***************************************************************************)
(* Properties of data_received and parse for these lines.                  *)
(***************************************************************************)
\* the step delivers the line ln alone
Delivers(ln) == received' # received /\ data' = ln \o <<NL>>

IsAuth(ln) ==
    Contains(ln, AUTH_PLAIN) \/ Contains(ln, AUTH_OK) \/ Contains(ln, AUTH_FAILED)

\* no open command has the id the line leads with
Unclaimed(ln) ==
    \A i \in 1..Len(commands) : ~LeadsWith(ln, cmds[commands[i]].id)

C27_AsStated ==
    [][\A ln \in WireLines :
          (/\ ~IsAuth(ln)
           /\ Unclaimed(ln)
           /\ received' # received
           /\ PySlice(data', 0, Len(ln) + 1) = ln \o <<NL>>)
             => /\ failed' = "none"
                /\ cmds' = cmds
                /\ ~Contains(buffer', <<NL>>)]_vars

\* C27's case: an empty line and a login result arrived together while a
\* command was open: parse raised IndexError, the login result is still in
\* the buffer, the client is not logged in.
C27_Witness ==
    /\ commands # <<>>
    /\ data = <<NL>> \o AUTH_OK \o <<NL>>
    /\ failed = "IndexError"
    /\ buffer = AUTH_OK \o <<NL>>
    /\ ~logged_in

\* C29 as stated: a line of an open command's id that contains COMMAND
\* COMPLETE or COMMAND FAILED completes the command.
C29_AsStated ==
    [][\A ln \in WireLines : \A r \in 1..Len(cmds) :
          (/\ IsOpen(r)
           /\ Delivers(ln)
           /\ ~IsAuth(ln)
           /\ LeadsWith(ln, cmds[r].id)
           /\ (Contains(ln, COMMAND_COMPLETE) \/ Contains(ln, COMMAND_FAILED)))
             => cmds'[r].completed]_vars

\* C29: for a line of an open command's id, COMMAND OK or COMMAND ERROR
\* sets acknowledged, COMMAND ERROR makes the line the error text; a line
\* with DATA INLINE stores its value and does not complete the command,
\* whatever else it contains; a line without DATA INLINE completes the
\* command when it contains COMMAND COMPLETE or COMMAND FAILED, and a
\* completed command is open no more.
C29_ParseRows ==
    [][\A ln \in WireLines : \A r \in 1..Len(cmds) :
          (IsOpen(r) /\ Delivers(ln) /\ ~IsAuth(ln) /\ LeadsWith(ln, cmds[r].id)) =>
              /\ cmds'[r].acknowledged =
                    (\/ cmds[r].acknowledged
                     \/ Contains(ln, COMMAND_OK)
                     \/ Contains(ln, COMMAND_ERROR))
              /\ cmds'[r].error =
                    IF Contains(ln, COMMAND_ERROR) THEN ln ELSE cmds[r].error
              /\ IF Contains(ln, DATA_INLINE)
                 THEN /\ ~cmds'[r].completed
                      /\ IsOpen(r)'
                      /\ cmds'[r].data =
                            strip_quotes(PyFrom(ln, Find(ln, <<"=">>) + 1))
                      /\ HasKey(cmds'[r].values, <<"a">>)
                 ELSE /\ cmds'[r].completed =
                            (\/ Contains(ln, COMMAND_COMPLETE)
                             \/ Contains(ln, COMMAND_FAILED))
                      /\ IsOpen(r)' = ~cmds'[r].completed
                      /\ cmds'[r].data = cmds[r].data
                      /\ cmds'[r].values = cmds[r].values]_vars

\* C29's case: the line of command 1 held DATA INLINE and, in its value,
\* COMMAND COMPLETE: the value is stored and the command is still open.
C29_Witness ==
    /\ data = Reply(1, DataBody(<<"a">>, Quoted(COMMAND_COMPLETE))) \o <<NL>>
    /\ IsOpen(1)
    /\ cmds[1].data = COMMAND_COMPLETE
    /\ ~cmds[1].completed

(***************************************************************************)
(* reset_focus_offset and its server, which acknowledges, completes or     *)
(* refuses any open command.                                               *)
(***************************************************************************)
\* what POSITION.INSTRUMENTAL.FOCUS.TARGETPOS reads
TargetPositions == {<<"2">>, <<"3">>}

\* what POSITION.INSTRUMENTAL.FOCUS.OFFSET reads
Offsets == {<<"0">>, <<"5">>, <<"-", "5">>}

\* the server answers an open command of reset_focus_offset
offset_complete ==
    \E i \in 1..Len(commands) :
        LET c == cmds[commands[i]]
        IN  \E bytes \in
                {Completed(c, v) :
                    v \in (IF ~IsGet(c) THEN {<<>>}
                           ELSE IF Asked(c) = "POSITION.INSTRUMENTAL.FOCUS.OFFSET"
                                THEN Offsets
                           ELSE TargetPositions)}
                \cup {Refused(c)}
                \cup (IF c.acknowledged THEN {}
                      ELSE {Reply(c.id, COMMAND_OK) \o <<NL>>}) :
                receive(bytes)

NextOffset ==
    \/ reset_focus_offset
    \/ op_resume
    \/ op_timeout
    \/ offset_complete

SpecOffset == Init /\ [][NextOffset]_vars

\* the commands that are SETs
Sets == {r \in 1..Len(cmds) : ~IsGet(cmds[r])}

\* C28 as stated: when reset_focus_offset has returned, every SET it wrote
\* has received its terminal line.
C28_AsStated ==
    (op.name = "reset_focus_offset" /\ op.pc = "done") =>
        \A r \in Sets : cmds[r].completed

\* C28's case: reset_focus_offset has read the position 2 and the offset
\* 5 and has returned; the SETs of 7.0 and of 0 are written, in this order,
\* and neither has a line of the server yet.
C28_Witness ==
    /\ op.name = "reset_focus_offset"
    /\ op.pc = "done"
    /\ Cardinality(Sets) = 2
    /\ transport[Len(transport) - 1] =
          PyStr(id - 1) \o <<" ">>
          \o SetText("POSITION.INSTRUMENTAL.FOCUS.TARGETPOS", <<"7", ".", "0">>) \o <<NL>>
    /\ transport[Len(transport)] =
          PyStr(id) \o <<" ">>
          \o SetText("POSITION.INSTRUMENTAL.FOCUS.OFFSET", <<"0">>) \o <<NL>>
    /\ \A r \in Sets : IsOpen(r) /\ ~cmds[r].acknowledged /\ ~cmds[r].completed

(***************************************************************************)
(* open and the login of the server: a prompt once the connection is made, *)
(* and after the credentials one result, in one delivery or in two.  The   *)
(* server may stop at any point.                                           *)
(***************************************************************************)
\* the half seconds of polling the model follows while nobody is logged in
MaxWait == 4

Connected == op.name = "open" /\ op.pc \in {"login_sleep", "done"}

\* the server prompts for the login
login_prompt ==
    /\ Connected
    /\ received = 0
    /\ receive(AUTH_PLAIN \o <<NL>>)

LoginResults == {AUTH_OK, AUTH_FAILED}

\* the server answers the credentials: the result, or the first four
\* characters of it
login_result ==
    /\ Connected
    /\ transport = <<AuthReply>>
    /\ data = AUTH_PLAIN \o <<NL>>
    /\ \E res \in LoginResults :
          \E bytes \in {res \o <<NL>>, PySlice(res, 0, 4)} : receive(bytes)

\* the server sends the rest of the result
login_result_rest ==
    /\ Connected
    /\ buffer = PySlice(AUTH_OK, 0, 4)
    /\ \E res \in LoginResults : receive(PyFrom(res, 4) \o <<NL>>)

\* a sleep of the login loop ends
open_poll ==
    /\ op.name = "open"
    /\ logged_in \/ now < MaxWait
    /\ op_wake

NextOpen ==
    \/ open
    \/ connection_made
    \/ connection_refused
    \/ open_poll
    \/ login_prompt
    \/ login_result
    \/ login_result_rest

SpecOpen == Init /\ [][NextOpen]_vars

\* the sleeps of the login loop end
SpecOpenFair == SpecOpen /\ WF_vars(open_poll)

\* the last line received is AUTH FAILED
LoginFailed == received > 0 /\ buffer = <<>> /\ Contains(data, PyFrom(AUTH_FAILED, 4))

\* C30: open has returned only if logged_in is true; when logged_in is
\* true, open returns; while logged_in is false, after AUTH FAILED as well
\* as with no result, a poll of open leaves it in its loop: it neither
\* returns nor raises nor counts anything but the sleeps.
C30_OpenWaitsForLogin ==
    /\ [](op.pc = "done" => logged_in)
    /\ [][(op.pc = "login_sleep" /\ ~logged_in) => op'.pc = "login_sleep"]_vars
    /\ [](LoginFailed => ~logged_in /\ op.pc = "login_sleep")
    /\ (op.pc = "login_sleep" /\ logged_in) ~> (op.pc = "done")

\* C30's case: the server answered AUTH FAILED and open has slept for as
\* long as the model follows it; it is in its loop still.
C30_Witness ==
    /\ op.name = "open"
    /\ op.pc = "login_sleep"
    /\ LoginFailed
    /\ transport = <<AuthReply>>
    /\ now = MaxWait

(***************************************************************************)
(* Framing.  The transport holds a byte stream and delivers it in chunks   *)
(* of any length; op is the transport's frame, with the stream and how     *)
(* much of it is delivered.  The commands are executed before the stream   *)
(* begins.                                                                 *)
(***************************************************************************)
\* the byte streams: lines of command 1, login lines, a prompt twice, and
\* an unfinished line at the end
Streams ==
    { AUTH_PLAIN \o <<NL>> \o Reply(1, COMMAND_OK) \o <<NL>> \o <<"2", " ", "C">>,
      Reply(1, COMMAND_COMPLETE) \o <<NL>> \o AUTH_OK \o <<NL>>,
      AUTH_PLAIN \o <<NL>> \o AUTH_PLAIN \o <<NL>> }

InitChunks ==
    /\ buffer = <<>>
    /\ logged_in = FALSE
    /\ id = 0
    /\ commands = <<>>
    /\ cmds = <<>>
    /\ transport = <<>>
    /\ data = <<>>
    /\ received = 0
    /\ failed = "none"
    /\ calls = <<>>
    /\ abort_event = FALSE
    /\ op \in {[name |-> "transport", pc |-> "receiving", stream |-> st, at |-> 0] :
                  st \in Streams}
    /\ errors = <<>>
    /\ now = 0

\* a command is executed before the stream begins
chunks_set ==
    /\ received = 0
    /\ id < MaxOpen
    /\ Becomes(execute(Protocol, SetText("K", <<"1">>)))
    /\ calls' = Append(calls, Frame("cmd", "handle", <<>>))
    /\ UNCHANGED <<data, received, abort_event, op, errors, now>>

\* the transport delivers the next bytes of the stream, as many as it likes
chunk_received ==
    /\ failed = "none"
    /\ \E n \in 1..(Len(op.stream) - op.at) :
          LET bytes == PySlice(op.stream, op.at, op.at + n)
          IN  /\ Becomes(data_received(Protocol, bytes))
              /\ data' = bytes
              /\ received' = received + 1
              /\ op' = [op EXCEPT !.at = @ + n]
    /\ UNCHANGED <<calls, abort_event, errors, now>>

NextChunks ==
    \/ chunks_set
    \/ chunk_received

SpecChunks == InitChunks /\ [][NextChunks]_vars

\* the protocol after n commands were executed and nothing was received
RECURSIVE Opened(_)
Opened(n) ==
    IF n = 0
    THEN [buffer |-> <<>>, logged_in |-> FALSE, id |-> 0, commands |-> <<>>,
          cmds |-> <<>>, transport |-> <<>>, failed |-> "none"]
    ELSE execute(Opened(n - 1), SetText("K", <<"1">>))

\* the newline-terminated lines of a text, in order
RECURSIVE whole_lines(_)
whole_lines(text) ==
    IF Contains(text, <<NL>>)
    THEN <<PySlice(text, 0, Find(text, <<NL>>))>>
         \o whole_lines(PyFrom(text, Find(text, <<NL>>) + 1))
    ELSE <<>>

\* what follows the last newline of a text
unfinished(text) ==
    IF Contains(text, <<NL>>) THEN PyFrom(text, RFind(text, <<NL>>) + 1) ELSE text

\* the lines from place i on handled one after the other, each by all open
\* commands before the next
RECURSIVE dispatched(_, _, _)
dispatched(p, lines, i) ==
    IF i > Len(lines) \/ p.failed # "none" THEN p
    ELSE dispatched(handle_line(p, lines[i]), lines, i + 1)

\* C31: however the stream was cut into chunks so far, the commands, the
\* open list, the login and what was written are those of handling the
\* delivered newline-terminated lines once each, in stream order, each line
\* by every open command before the next line, and the buffer holds the
\* bytes that follow the last newline delivered.
C31_FramingIndependentOfChunks ==
    op.name = "transport" =>
        LET prefix == PySlice(op.stream, 0, op.at)
            p      == dispatched(Opened(id), whole_lines(prefix), 1)
        IN  /\ failed = "none"
            /\ cmds = p.cmds
            /\ commands = p.commands
            /\ logged_in = p.logged_in
            /\ transport = p.transport
            /\ buffer = unfinished(prefix)

\* C31's case: the stream that ends in an unfinished line has arrived in
\* four chunks or more, the last of one byte, while commands 1 and 2 were
\* open: the credentials are written once, command 1 is acknowledged, and
\* the unfinished line is in the buffer.
C31_Witness ==
    /\ op.name = "transport"
    /\ op.at = Len(op.stream)
    /\ received >= 4
    /\ Len(data) = 1
    /\ buffer = <<"2", " ", "C">>
    /\ id = 2
    /\ transport = Opened(2).transport \o <<AuthReply>>
    /\ cmds[1].acknowledged
    /\ ~cmds[2].acknowledged
    /\ commands = <<1, 2>>

(***************************************************************************)
(* The classifier: PilarError.create and PilarError.check_fatal are called *)
(* in any order on PilarError._errors, and time passes between the calls.  *)
(* op is the frame of the last call: the name given, the error returned    *)
(* (None for no instance), and what check_fatal returned.                  *)
(***************************************************************************)
\* two names of the table, the second ignored, and a name that is not in it
ErrorNames ==
    {<<"ERR_Brake_ClosedFromOther">>, <<"ERR_GPS_PositionLost">>, <<"ERR_Unheard_Of">>}

\* how many times time passes between calls
MaxSpans == 2

\* the dates an instance holds
Recorded(errs) == [i \in 1..Len(errs) |-> Len(errs[i].dates)]

RECURSIVE Sum(_, _)
Sum(ns, i) == IF i > Len(ns) THEN 0 ELSE ns[i] + Sum(ns, i + 1)

\* PilarError.create is called
create_called ==
    /\ op.name \in {"none", "classifier"}
    /\ Sum(Recorded(errors), 1) < MaxDates
    /\ \E name \in ErrorNames :
          LET made == create(errors, name, now)
          IN  /\ errors' = made.errors
              /\ op' = [name |-> "classifier", pc |-> "create", arg |-> name,
                        err |-> made.err, fatal |-> FALSE]
    /\ UNCHANGED <<buffer, logged_in, id, commands, cmds, transport, data, received,
                   failed, calls, abort_event, now>>

\* PilarError.check_fatal is called
check_fatal_called ==
    /\ op.name \in {"none", "classifier"}
    /\ LET checked == check_fatal(errors, 1)
       IN  /\ errors' = checked.errors
           /\ op' = [name |-> "classifier", pc |-> "check_fatal", arg |-> None,
                     err |-> None, fatal |-> checked.fatal]
    /\ UNCHANGED <<buffer, logged_in, id, commands, cmds, transport, data, received,
                   failed, calls, abort_event, now>>

\* a minute and a second pass, which is more than the accum_span of the
\* first name
time_passes ==
    /\ now < MaxSpans * Seconds(61)
    /\ now' = now + Seconds(61)
    /\ UNCHANGED <<buffer, logged_in, id, commands, cmds, transport, data, received,
                   failed, calls, abort_event, op, errors>>

NextRegistry ==
    \/ create_called
    \/ check_fatal_called
    \/ time_passes

SpecRegistry == Init /\ [][NextRegistry]_vars

(***************************************************************************)
(* Properties of the classifier.                                           *)
(***************************************************************************)
\* the step is a call of create with the name
Creates(name) == op'.pc = "create" /\ op'.arg = name /\ now' = now

\* the place of the instance of a name in errs, 0 if there is none
Place(errs, name) ==
    IF \E i \in 1..Len(errs) : errs[i].name = name
    THEN CHOOSE i \in 1..Len(errs) : errs[i].name = name
    ELSE 0

\* the list short begins the list long
Begins(short, long) ==
    Len(short) <= Len(long) /\ SubSeq(long, 1, Len(short)) = short

\* C32: PilarError._errors holds at most one instance per name and only
\* names of the table; create with a known name returns the instance of
\* that name, the one there was if there was one, with its earlier dates
\* kept, and leaves the other instances alone; create with an unknown name
\* returns None and leaves PilarError._errors, and with it what check_fatal
\* returns, as it was.
C32_OneInstancePerKnownName ==
    /\ [](\A i, j \in 1..Len(errors) :
            Known(errors[i].name) /\ (errors[i].name = errors[j].name => i = j))
    /\ [][\A name \in ErrorNames :
            Creates(name) =>
                IF Known(name)
                THEN /\ op'.err = name
                     /\ Place(errors', name) > 0
                     /\ Len(errors') = Len(errors) + (IF Place(errors, name) = 0 THEN 1 ELSE 0)
                     /\ \A i \in 1..Len(errors) :
                           /\ errors'[i].name = errors[i].name
                           /\ Begins(errors[i].dates, errors'[i].dates)
                           /\ errors[i].name # name => errors'[i] = errors[i]
                ELSE /\ op'.err = None
                     /\ errors' = errors]_vars

\* C32's case: the first name has occurred at two times and the ignored
\* name once, and create was then called with a name that is not in the
\* table: there are two instances, the first with both dates.
C32_Witness ==
    /\ op.name = "classifier"
    /\ op.pc = "create"
    /\ op.arg = <<"ERR_Unheard_Of">>
    /\ op.err = None
    /\ errors = << [name |-> <<"ERR_Brake_ClosedFromOther">>,
                    dates |-> <<0, Seconds(61)>>],
                   [name |-> <<"ERR_GPS_PositionLost">>, dates |-> <<>>] >>

\* C33: an instance of an ignored name has no dates, is not fatal, and
\* check_fatal is true only by an instance of another name; create with an
\* ignored name changes no dates; create with a name that is not ignored
\* appends the time of the call, once, to the end of the dates of its
\* instance.
C33_IgnoredNeverRecorded ==
    /\ [](\A i \in 1..Len(errors) :
            Behaviour(errors[i].name).ignore =>
                errors[i].dates = <<>> /\ ~fatal(errors[i]).fatal)
    /\ [](check_fatal(errors, 1).fatal =>
            \E i \in 1..Len(errors) :
                ~Behaviour(errors[i].name).ignore /\ fatal(errors[i]).fatal)
    /\ [][\A name \in {n \in ErrorNames : Known(n)} :
            Creates(name) =>
                IF Behaviour(name).ignore
                THEN Recorded(errors') = Recorded(errors) \o
                        (IF Place(errors, name) = 0 THEN <<0>> ELSE <<>>)
                ELSE errors'[Place(errors', name)].dates =
                        Append(IF Place(errors, name) = 0 THEN <<>>
                               ELSE errors[Place(errors, name)].dates, now)]_vars

\* C33's case: the ignored name occurred before the first name did and
\* has occurred again after it: its instance has no dates, the other has
\* its two.
C33_Witness ==
    /\ op.name = "classifier"
    /\ op.pc = "create"
    /\ op.arg = <<"ERR_GPS_PositionLost">>
    /\ op.err = <<"ERR_GPS_PositionLost">>
    /\ errors = << [name |-> <<"ERR_GPS_PositionLost">>, dates |-> <<>>],
                   [name |-> <<"ERR_Brake_ClosedFromOther">>,
                    dates |-> <<Seconds(61), Seconds(61)>>] >>

\* the instance at place i of errs has more dates than its reset_max
OverResetMax(errs, i) == Len(errs[i].dates) > Behaviour(errs[i].name).reset_max

\* C37: an instance with more than reset_max dates is fatal, check_fatal is
\* true, and a check_fatal called since is true; whatever is called next
\* and whatever time passes, the instance keeps all its dates, so it has
\* more than reset_max dates ever after.
C37_FatalByCountAbsorbing ==
    /\ [](\A i \in 1..Len(errors) :
            OverResetMax(errors, i) =>
                /\ fatal(errors[i]).fatal
                /\ fatal(errors[i]).dates = errors[i].dates
                /\ check_fatal(errors, 1).fatal
                /\ op.pc = "check_fatal" => op.fatal)
    /\ [][\A i \in 1..Len(errors) :
            OverResetMax(errors, i) =>
                /\ Len(errors') >= i
                /\ errors'[i].name = errors[i].name
                /\ Begins(errors[i].dates, errors'[i].dates)]_vars

\* C37's case: the first name has 11 dates, the first two minutes and more
\* before the last, and check_fatal has returned True.
C37_Witness ==
    /\ op.name = "classifier"
    /\ op.pc = "check_fatal"
    /\ op.fatal
    /\ Len(errors) = 1
    /\ Len(errors[1].dates) = 11
    /\ OverResetMax(errors, 1)
    /\ errors[1].dates[1] = 0
    /\ errors[1].dates[11] = Seconds(122)

(***************************************************************************)
(* The background task with a server that may log the client in at any     *)
(* time after the connection is made and may complete any open command.    *)
(***************************************************************************)
\* the iterations of the task the model follows
MaxRounds == 2

\* the connection is made while the task runs: PilarClientProtocol.__init__
\* stores the protocol in the driver
protocol_made ==
    /\ op.name = "_error_thread_func"
    /\ op.protocol = "None"
    /\ op' = [op EXCEPT !.protocol = "connected"]
    /\ UNCHANGED <<buffer, logged_in, id, commands, cmds, transport, data, received,
                   failed, calls, abort_event, errors, now>>

\* the server accepts the login
login_accepted ==
    /\ op.name = "_error_thread_func"
    /\ op.protocol = "connected"
    /\ ~logged_in
    /\ receive(AUTH_OK \o <<NL>>)

\* a sleep of the task ends
error_thread_wakes ==
    /\ op.name = "_error_thread_func"
    /\ op.pc = "loop_sleep" => op.rounds < MaxRounds
    /\ op_wake

NextLoop ==
    \/ \E pr \in {"None", "connected"} : error_thread_func(pr)
    \/ protocol_made
    \/ login_accepted
    \/ error_thread_wakes
    \/ op_resume
    \/ op_timeout
    \/ clear_complete

SpecLoop == Init /\ [][NextLoop]_vars

\* C34 as stated: the step that follows the back-off of an iteration that
\* found the client not logged in writes nothing: clear_errors is not
\* called, the task does not end.
C34_AsStated ==
    [][(op.name = "_error_thread_func" /\ op.pc = "backoff" /\ op' # op
          /\ op'.protocol = op.protocol)
          => /\ transport' = transport
             /\ op'.stage = "idle"
             /\ op'.pc # "raised"]_vars

\* C34's case: the connection is made and nobody is logged in; the task
\* has backed off for 5 s in its first iteration and has then called
\* clear_errors, whose GET is written and awaited.
C34_Witness ==
    /\ op.name = "_error_thread_func"
    /\ op.protocol = "connected"
    /\ ~logged_in
    /\ received = 0
    /\ op.rounds = 1
    /\ now = Seconds(5)
    /\ op.stage = "clear_errors"
    /\ op.pc = "global"
    /\ transport = <<PyStr(1) \o <<" ">> \o GetText("TELESCOPE.STATUS.GLOBAL") \o <<NL>>>>

(***************************************************************************)
(* What set(wait=True) returns, by the terminal line of its exchange.      *)
(***************************************************************************)
\* call r is a set(wait=True) that has returned, and the last line received
\* is the line of its command with the terminal body b
ReturnedAfter(r, b) ==
    /\ calls[r].fn = "set"
    /\ calls[r].pc = "returned"
    /\ cmds[r].completed
    /\ data = Reply(cmds[r].id, b) \o <<NL>>

\* C36 as stated: a set whose exchange ended with COMMAND FAILED returns
\* False.
C36_AsStated ==
    \A r \in 1..Len(calls) : ReturnedAfter(r, COMMAND_FAILED) => calls[r].result = FALSE

\* C36: whichever terminal line ended the exchange, set returns False when
\* a COMMAND ERROR line of its command came before it, and True when none
\* did, after COMMAND FAILED as after COMMAND COMPLETE.
C36_FalseOnlyAfterErrorLine ==
    \A r \in 1..Len(calls) : \A b \in EndBodies :
        ReturnedAfter(r, b) =>
            /\ calls[r].result = FALSE <=>
                  (/\ cmds[r].error # None
                   /\ Contains(cmds[r].error, COMMAND_ERROR)
                   /\ LeadsWith(cmds[r].error, cmds[r].id))
            /\ calls[r].result = TRUE <=> cmds[r].error = None

\* C36's case: COMMAND FAILED ended the exchange of a set with no COMMAND
\* ERROR line before it, and set returned True.
C36_Witness ==
    \E r \in 1..Len(calls) :
        /\ ReturnedAfter(r, COMMAND_FAILED)
        /\ cmds[r].error = None
        /\ calls[r].result = TRUE

(***************************************************************************)
(* The open list and the commands whose wait timed out.                    *)
(***************************************************************************)
\* the executed commands that have not had their terminal line, in the
\* order of their execution
Unfinished == SelectSeq([r \in 1..Len(cmds) |-> r], LAMBDA r : ~cmds[r].completed)

\* C35: the open list is exactly the executed commands without their
\* terminal line; a command leaves it only in the step that receives its
\* terminal line, so a command whose wait timed out stays open, and the
\* later lines of its id still acknowledge it, set its error text and
\* finish it.
C35_OpenUntilTerminalLine ==
    /\ [](commands = Unfinished)
    /\ [](\A r \in 1..Len(calls) :
            (TimedOut(calls[r]) /\ ~cmds[r].completed) => IsOpen(r))
    /\ [][\A r \in 1..Len(cmds) :
            /\ (IsOpen(r) /\ \A i \in 1..Len(commands') : commands'[i] # r) =>
                   \E b \in EndBodies : Receives(cmds[r].id, b)
            /\ (TimedOut(calls[r]) /\ IsOpen(r)) =>
                   /\ \A b \in AckBodies :
                          Receives(cmds[r].id, b) => cmds'[r].acknowledged
                   /\ \A b \in AckBodies :
                          (Receives(cmds[r].id, b) /\ Contains(b, COMMAND_ERROR)) =>
                              cmds'[r].error = Reply(cmds[r].id, b)
                   /\ \A b \in EndBodies :
                          Receives(cmds[r].id, b) =>
                              /\ cmds'[r].completed
                              /\ commands' = RemoveAll(commands, <<r>>)]_vars

\* C35's case: the wait of a command timed out while it was open (a wait
\* on a finished command never times out), and later lines of its id set
\* its error text and finished it.
C35_Witness ==
    \E r \in 1..Len(calls) :
        /\ TimedOut(calls[r])
        /\ cmds[r].completed
        /\ \E b \in AckBodies : cmds[r].error = Reply(cmds[r].id, b)
        /\ ~IsOpen(r)

(***************************************************************************)
(* An error that stays in the status list.  track and clear_errors are     *)
(* called one after the other, each call after the one before it has       *)
(* returned and 5 s have passed; list_errors has no await between reading  *)
(* the list and the last PilarError.create, so the calls of list_errors of *)
(* concurrent callers act on PilarError._errors one after the other as     *)
(* well.  The telescope never reaches the tracking state, the global       *)
(* status is severe, and the status list names ERR_Azimuth_ETELError every *)
(* time.                                                                   *)
(***************************************************************************)
\* how many times list_errors is called in one run
MaxPersist == 6

IsListing(c) == IsGet(c) /\ Asked(c) = "TELESCOPE.STATUS.LIST"

\* the calls of list_errors so far, and those of them that have read the
\* status list
Listings == Cardinality({r \in 1..Len(cmds) : IsListing(cmds[r])})

ListingsRead ==
    Cardinality({r \in 1..Len(cmds) : IsListing(cmds[r]) /\ calls[r].pc = "returned"})

\* what TELESCOPE.STATUS.LIST reads: the first time the group of an ignored
\* error may be in it as well
PersistingLists ==
    {Quoted(StatusKnown)}
    \cup (IF Listings = 1 THEN {Quoted(StatusKnown \o <<",">> \o StatusIgnored)} ELSE {})

\* the server completes the open command
persist_complete ==
    \E i \in 1..Len(commands) :
        LET c == cmds[commands[i]]
        IN  \E v \in (IF ~IsGet(c) THEN {<<>>}
                      ELSE IF IsListing(c) THEN PersistingLists
                      ELSE IF IsPoll(c) THEN {<<"0">>}
                      ELSE {<<"2">>}) :
                receive(Completed(c, v))

\* the operation has returned to its caller, who calls again 5 s later
returned_to_caller ==
    /\ op.name \in {"track", "clear_errors"}
    /\ op.pc = "done"
    /\ op' = NoOp
    /\ now' = now + Seconds(5)
    /\ UNCHANGED <<buffer, logged_in, id, commands, cmds, transport, data,
                   received, failed, calls, abort_event, errors>>

NextPersist ==
    \/ Listings < MaxPersist /\ track(Ra, Dec)
    \/ Listings < MaxPersist /\ clear_errors
    \/ op_resume
    \/ op_wake
    \/ persist_complete
    \/ returned_to_caller

SpecPersist == Init /\ [][NextPersist]_vars

\* self._dates of the instance of the name in errs, none if there is no
\* instance
DatesOf(errs, name) ==
    IF \E i \in 1..Len(errs) : errs[i].name = <<name>>
    THEN errs[CHOOSE i \in 1..Len(errs) : errs[i].name = <<name>>].dates
    ELSE <<>>

\* C38: every call of list_errors that reads the status list records one
\* occurrence of the known error the list names, at the time of the read,
\* whether track or clear_errors made the call, and none for an ignored
\* name; so after k calls the error that stayed in the list has k
\* occurrences, and check_fatal is true as soon as they are more than
\* accum_max.
C38_OneOccurrencePerListing ==
    /\ [](/\ Len(DatesOf(errors, "ERR_Azimuth_ETELError")) = ListingsRead
          /\ DatesOf(errors, "ERR_GPS_LeapSecond") = <<>>
          /\ check_fatal(errors, 1).fatal <=>
                 ListingsRead > Behaviour(<<"ERR_Azimuth_ETELError">>).accum_max)
    /\ [][(/\ op.name \in {"track", "clear_errors"}
           /\ op.pc = "list_errors"
           /\ calls'[op.call].pc = "returned") =>
              DatesOf(errors', "ERR_Azimuth_ETELError") =
                  Append(DatesOf(errors, "ERR_Azimuth_ETELError"), now)]_vars

\* C38's case: the one error stayed in the status list over six calls of
\* list_errors, some made by track and some by clear_errors, and the last
\* clear_errors found the fatal condition and returned False.
C38_Witness ==
    /\ op.name = "clear_errors"
    /\ op.pc = "done"
    /\ op.result = <<"False">>
    /\ ListingsRead = 6
    /\ Len(errors) = 1
    /\ Len(DatesOf(errors, "ERR_Azimuth_ETELError")) = 6
    /\ check_fatal(errors, 1).fatal
    /\ \E r \in 1..Len(cmds) : IsPoll(cmds[r])
    /\ Written("TELESCOPE.STATUS.CLEAR") > 0

(***************************************************************************)
(* What track writes to POINTING.TRACK.                                    *)
(***************************************************************************)
\* the places of transport at which POINTING.TRACK was set
TrackWrites ==
    {i \in 1..Len(transport) :
        Contains(transport[i], <<"S", "E", "T", " ", "POINTING.TRACK", "=">>)}

\* the last value written to POINTING.TRACK is the text value
LastTrackWritten(value) ==
    /\ TrackWrites # {}
    /\ LET last == CHOOSE i \in TrackWrites : \A j \in TrackWrites : j <= i
       IN  Contains(transport[last], SetText("POINTING.TRACK", value))

\* C39 as stated: when track has returned True, the last value it wrote to
\* POINTING.TRACK is 1.
C39_AsStated ==
    (op.name = "track" /\ op.pc = "done" /\ op.result = TRUE) =>
        LastTrackWritten(PyStr(1))

\* C39's case: the first attempt of track ended with motion state 0 and
\* an empty status list, track wrote POINTING.TRACK=2, the poll of the
\* second attempt read 11 and track returned True.
C39_Witness ==
    /\ op.name = "track"
    /\ op.pc = "done"
    /\ op.result = TRUE
    /\ op.attempt = 1
    /\ ~abort_event
    /\ LastTrackWritten(PyStr(2))
    /\ \E r \in 1..Len(cmds) : IsPoll(cmds[r]) /\ cmds[r].data = <<"0">>

(***************************************************************************)
(* The sets that open goto and track, and the command that starts the      *)
(* motion.                                                                 *)
(***************************************************************************)
\* the command that starts the motion is the last set of the preamble
Motion(o) == preamble(o)[Len(preamble(o))]

\* the motion command of the operation has been written
MotionWritten ==
    /\ Len(transport) >= Len(preamble(op))
    /\ Contains(transport[Len(preamble(op))], Motion(op))

\* C40 as stated: goto and track have written the motion command only
\* when no set before it was answered with COMMAND ERROR.
C40_AsStated ==
    (op.name \in {"goto", "track"} /\ MotionWritten) =>
        \A r \in 1..(Len(preamble(op)) - 1) : cmds[r].error = None

\* C40: goto and track write each set of the preamble only after the one
\* before it has had its terminal line, the motion command included; the
\* step in which a set of the preamble returns writes the next one,
\* whether the set returned True or, after a COMMAND ERROR, False.
C40_PreambleInTurnWhateverTheAnswer ==
    /\ [](op.name \in {"goto", "track"} =>
            \A r \in 1..Len(cmds) :
                (r < Len(cmds) /\ r <= Len(preamble(op))) => cmds[r].completed)
    /\ [][(/\ op.name \in {"goto", "track"}
           /\ op.pc = "preamble"
           /\ op.step < Len(preamble(op))
           /\ calls'[op.call].pc = "returned") =>
              /\ calls'[op.call].result = (cmds[op.call].error = None)
              /\ transport' = Append(transport,
                     PyStr(id + 1) \o <<" ">> \o preamble(op)[op.step + 1] \o <<NL>>)
              /\ op'.pc = "preamble"
              /\ op'.step = op.step + 1]_vars

\* C40's case: the set of a target coordinate was answered with COMMAND
\* ERROR and COMMAND FAILED, set returned False, and the motion command
\* has been written after it.
C40_Witness ==
    /\ op.name \in {"goto", "track"}
    /\ MotionWritten
    /\ \E r \in {4, 5} :
          /\ cmds[r].completed
          /\ cmds[r].error # None
          /\ calls[r].result = FALSE

====
